---- MODULE Spec2Model ----
(***************************************************************************)
(* A model of the MMKV storage engine orchestrated by Core/MMKV.cpp: the   *)
(* memory-mapped append-only data file, its CRC-protected meta file, the  *)
(* in-memory index of each process's instance, and the public operations  *)
(* of MMKV.cpp over them.  Bytes are kept as bytes: records are encoded    *)
(* with varints, the CRC is folded over the payload, and crypt mode runs  *)
(* the payload through a feedback stream cipher.                          *)
(***************************************************************************)
EXTENDS Integers, Sequences, FiniteSets, TLC

\* ------------------------------------------------------------------------
\* Bounds of the model and constants of the program
\* ------------------------------------------------------------------------

\* Size of the uint32 actualSize header of the data file (pbFixed32Size()).
Fixed32Size == 4

\* The OS page size that initialize() stores in DEFAULT_MMAP_SIZE, scaled down.
PageSize == 8

\* Keys are the one-byte strings <<1>> .. <<MaxKey>> and the empty string.
MaxKey == 2

\* The larger of the two int32 values written (a two-byte varint).
BigValue == 200

\* The default the callers pass to getInt32.
DefaultValue == 7

\* Writes that bump meta.sequence stop being offered at this sequence.
MaxSeq == 2

\* MMKVMetaInfo versions (MMKVVersionDefault .. MMKVVersionRandomIV).
MMKVVersionDefault == 0
MMKVVersionRandomIV == 2

\* Length of the key buffer of AESCrypt.
AES_KEY_LEN == 16

\* The processes that map the same files: the main one and a peer.
Main == "main"
Peer == "peer"
Procs == {Main, Peer}
EmptyKey == <<>>
Keys == {<<k>> : k \in 1..MaxKey}
AllKeys == Keys \cup {EmptyKey}
Values == {1, BigValue}
\* Writes that would grow the data file beyond two pages are not offered.
MaxFileSize == PageSize * 2

\* ------------------------------------------------------------------------
\* Small helpers
\* ------------------------------------------------------------------------

Min(a, b) == IF a < b THEN a ELSE b

Range(f) == {f[i] : i \in DOMAIN f}

\* bytes[from .. from+len-1], empty when the run leaves the sequence
Slice(bytes, from, len) ==
  IF len <= 0 \/ from < 1 \/ from + len - 1 > Len(bytes) THEN <<>>
  ELSE SubSeq(bytes, from, from + len - 1)

\* ------------------------------------------------------------------------
\* Scalar codec (CodedOutputData / CodedInputData): base-128 varints
\* ------------------------------------------------------------------------

RECURSIVE EncodeVarint(_)
EncodeVarint(v) ==
  IF v < 128 THEN <<v>>
  ELSE <<(v % 128) + 128>> \o EncodeVarint(v \div 128)

pbRawVarint32Size(v) == Len(EncodeVarint(v))

\* Reads a varint at bytes[pos]: [ok, val, next].  A run of continuation
\* bytes that leaves the buffer is a decode failure (the exception of
\* CodedInputData); so is here a run longer than four bytes, whose value
\* no length and no int32 written in the model has (readRawVarint32 below
\* reads the fifth byte and the sign).
RECURSIVE ReadVarintFrom(_, _, _, _, _)
ReadVarintFrom(bytes, pos, acc, mul, n) ==
  IF pos > Len(bytes) \/ n >= 4 THEN [ok |-> FALSE, val |-> 0, next |-> pos]
  ELSE IF bytes[pos] < 128
       THEN [ok |-> TRUE, val |-> acc + bytes[pos] * mul, next |-> pos + 1]
       ELSE ReadVarintFrom(bytes, pos + 1, acc + (bytes[pos] - 128) * mul,
                           mul * 128, n + 1)

ReadVarint(bytes, pos) == ReadVarintFrom(bytes, pos, 0, 1, 0)

\* output.writeInt32(value) for value >= 0; input.readInt32()
writeInt32(v) == EncodeVarint(v)

\* varint(len) || bytes: the codec's form of strings and byte runs
writeString(str) == EncodeVarint(Len(str)) \o str

\* One record of the log: varint(keyLen) || key || varint(valLen) || val
EncodeRecord(key, val) ==
  EncodeVarint(Len(key)) \o key \o EncodeVarint(Len(val)) \o val

\* ------------------------------------------------------------------------
\* CRC32 (crc32/Checksum.h): folded byte by byte, so that
\* CRC32(CRC32(0, a), b) = CRC32(0, a \o b)
\* ------------------------------------------------------------------------

RECURSIVE CRC32From(_, _, _)
CRC32From(crc, bytes, i) ==
  IF i > Len(bytes) THEN crc
  ELSE CRC32From((crc * 31 + bytes[i] + 1) % 67108859, bytes, i + 1)

CRC32(crc, bytes) == CRC32From(crc, bytes, 1)

\* ------------------------------------------------------------------------
\* AESCrypt: a stream cipher with ciphertext feedback (CFB).  The state st
\* stands for (IV block, position); each byte is combined with a keystream
\* byte derived from the key and st, and st then absorbs the ciphertext.
\* ------------------------------------------------------------------------

NoCrypter == [on |-> FALSE, key |-> <<>>, sched |-> 0, st |-> 0]

\* The key buffer m_key: the first AES_KEY_LEN bytes, zero padded.
PadKey(k) == [i \in 1..AES_KEY_LEN |-> IF i <= Len(k) THEN k[i] ELSE 0]

RECURSIVE KeyHashFrom(_, _, _)
KeyHashFrom(key, i, h) ==
  IF i > Len(key) THEN h ELSE KeyHashFrom(key, i + 1, (h * 3 + key[i]) % 64)

KeyHash(key) == KeyHashFrom(key, 1, 0)

\* resetIV() without an argument: the IV is taken from the key.
DefaultIV(key) == KeyHash(key)

\* new AESCrypt(key, length): the key buffer, the key schedule expanded
\* from it, and the IV taken from the key
NewAESCrypt(k) ==
  [on |-> TRUE, key |-> PadKey(k), sched |-> KeyHash(PadKey(k)),
   st |-> DefaultIV(PadKey(k))]

resetIVDefault(c) == [c EXCEPT !.st = DefaultIV(c.key)]

resetIV(c, vector) == [c EXCEPT !.st = vector % 64]

KeyStream(sched, st) == (sched * 11 + st * 7 + 3) % 256

NextSt(st, cipherByte) == (st * 5 + cipherByte + 1) % 64

\* encrypt(src, dst, len): [out, st]
RECURSIVE EncryptFrom(_, _, _, _, _)
EncryptFrom(sched, st, plain, i, out) ==
  IF i > Len(plain) THEN [out |-> out, st |-> st]
  ELSE LET c == (plain[i] + KeyStream(sched, st)) % 256
       IN EncryptFrom(sched, NextSt(st, c), plain, i + 1, Append(out, c))

Encrypt(c, st, plain) == EncryptFrom(c.sched, st, plain, 1, <<>>)

\* decrypt(src, dst, len): [out, sts, st], sts[i] the state before byte i
RECURSIVE DecryptFrom(_, _, _, _, _, _)
DecryptFrom(sched, st, cipher, i, out, sts) ==
  IF i > Len(cipher) THEN [out |-> out, sts |-> sts, st |-> st]
  ELSE LET b == (cipher[i] + 256 - KeyStream(sched, st)) % 256
       IN DecryptFrom(sched, NextSt(st, cipher[i]), cipher, i + 1,
                      Append(out, b), Append(sts, st))

Decrypt(c, st, cipher) == DecryptFrom(c.sched, st, cipher, 1, <<>>, <<>>)

\* ------------------------------------------------------------------------
\* State
\* ------------------------------------------------------------------------

VARIABLES
  dataFile,        \* the mapped data file: [size, actualSize, bytes]
  metaFile,        \* the mapped .crc file: MMKVMetaInfo as last written
  inst,            \* inst[p]: the MMKV instance of process p
  g_errorHandler,  \* the registered error handler
  appKey,          \* the crypt key the application opens the store with
  model,           \* what the callers have put: key -> [has, isStr, int, str]
  pc,              \* pc[t]: the operation thread t runs and its statement
  holds,           \* holds[t]: the locks thread t has taken, oldest first
  g_instanceLock,  \* g_instanceLock[p]: the registry mutex of process p
  m_lock,          \* m_lock[p]: the recursive mutex of the instance of p
  m_fileLock,      \* m_fileLock[p]: the FileLock of the instance of p
  g_instanceDic    \* g_instanceDic[p]: "empty", "kv" or "null" (deleted);
                   \* under SpecReg the map from mmapKey to instance

engineVars == <<dataFile, metaFile, inst, g_errorHandler, appKey, model>>

lockVars ==
  <<pc, holds, g_instanceLock, m_lock, m_fileLock, g_instanceDic>>

vars == <<engineVars, lockVars>>

\* The threads: two of the main process and one of the peer process
Threads == {"t1", "t2", "t3"}

ProcOf(t) == IF t = "t3" THEN Peer ELSE Main

NoThread == "none"

\* A thread outside every operation
Idle == [op |-> "idle", i |-> 0]

\* ThreadLock(): a recursive mutex nobody owns
FreeLock == [owner |-> NoThread, count |-> 0]

\* FileLock(fd): the two recursion counters of the process and the lock
\* the process holds on the meta file ("none", "shared", "exclusive")
NewFileLock == [shared |-> 0, exclusive |-> 0, os |-> "none"]

LockInit ==
  /\ pc = [t \in Threads |-> Idle]
  /\ holds = [t \in Threads |-> <<>>]
  /\ g_instanceLock = [p \in Procs |-> FreeLock]
  /\ m_lock = [p \in Procs |-> FreeLock]
  /\ m_fileLock = [p \in Procs |-> NewFileLock]
  /\ g_instanceDic = [p \in Procs |-> "empty"]

\* MMKVMetaInfo()
ZeroMeta ==
  [crcDigest |-> 0, actualSize |-> 0, version |-> MMKVVersionDefault,
   sequence |-> 0, vector |-> 0]

\* No instance registered: the fields of a destroyed object.
NoInst ==
  [open |-> FALSE, needLoad |-> TRUE,
   hasDic |-> FALSE, dic |-> {}, hasDicCrypt |-> FALSE, dicCrypt |-> {},
   crypter |-> NoCrypter, actualSize |-> 0, crcDigest |-> 0,
   meta |-> ZeroMeta, hasFullWriteback |-> FALSE, fileSize |-> 0,
   crashed |-> FALSE]

\* The values a crashed process leaves behind: nothing of it runs again.
Crash(W) == [W EXCEPT !.s = [NoInst EXCEPT !.crashed = TRUE]]

\* ------------------------------------------------------------------------
\* Index (MMKVMap / MMKVMapCrypt): a set of holders [key, off, len, st];
\* off and len locate the value bytes in the payload, st is the cipher
\* state at the first value byte (0 in plain mode).
\* ------------------------------------------------------------------------

Find(dic, key) == {h \in dic : h.key = key}

Erase(dic, key) == {h \in dic : h.key # key}

\* The map the instance uses in its current crypt mode, and whether the
\* pointer to it is null.
CurrentDicIsNull(s) == IF s.crypter.on THEN ~s.hasDicCrypt ELSE ~s.hasDic

CurrentDic(s) == IF s.crypter.on THEN s.dicCrypt ELSE s.dic

WithCurrentDic(s, dic) ==
  IF s.crypter.on THEN [s EXCEPT !.dicCrypt = dic] ELSE [s EXCEPT !.dic = dic]

\* The payload bytes payload[0..n) of the data file
Payload(d, n) == SubSeq(d.bytes, 1, Min(n, Len(d.bytes)))

\* MiniPBCoder::decodeMap: walks the decrypted payload; a later record of a
\* key replaces the earlier one, a record with valLen = 0 erases the key,
\* and the walk stops at the first record that does not parse.
RECURSIVE DecodeMapFrom(_, _, _, _)
DecodeMapFrom(plain, sts, pos, idx) ==
  IF pos > Len(plain) THEN idx
  ELSE
    LET kl == ReadVarint(plain, pos) IN
    IF ~kl.ok \/ kl.next + kl.val - 1 > Len(plain) THEN idx
    ELSE
      LET key == Slice(plain, kl.next, kl.val)
          vl == ReadVarint(plain, kl.next + kl.val)
      IN
      IF ~vl.ok \/ vl.next + vl.val - 1 > Len(plain) THEN idx
      ELSE
        LET h == [key |-> key, off |-> vl.next, len |-> vl.val,
                  st |-> IF vl.val > 0 THEN sts[vl.next] ELSE 0]
            idx2 == IF kl.val = 0 THEN idx
                    ELSE IF vl.val = 0 THEN Erase(idx, key)
                    ELSE Erase(idx, key) \cup {h}
        IN DecodeMapFrom(plain, sts, vl.next + vl.val, idx2)

\* The value bytes a holder refers to, read through the mapping and
\* decrypted from the holder's snapshot in crypt mode.
HolderValue(s, d, h) ==
  LET raw == Slice(d.bytes, h.off, h.len)
  IN IF s.crypter.on THEN Decrypt(s.crypter, h.st, raw).out ELSE raw

\* ------------------------------------------------------------------------
\* The engine.  Every operator takes and returns a world
\* W = [d, m, s, lim]: the data file, the meta file, the instance of the
\* calling process, and whether a bound of the model was passed.
\* ------------------------------------------------------------------------

World(d, m, s) == [d |-> d, m |-> m, s |-> s, lim |-> FALSE]

\* nullptr passed for the iv argument
NoIV == 0

\* The vectors AESCrypt::fillRandomIV can produce
MaxIV == 2

IVs == 1..MaxIV

\* writeActualSize(size, crcDigest, iv, increaseSequence): the header of the
\* data file, the instance's MMKVMetaInfo, and its image in the meta file
writeActualSize(W, size, crcDigest, iv, increaseSequence) ==
  LET meta1 == [W.s.meta EXCEPT
                  !.actualSize = size,
                  !.crcDigest = crcDigest,
                  !.vector = IF iv = NoIV THEN @ ELSE iv,
                  !.version = IF iv # NoIV /\ @ < MMKVVersionRandomIV
                              THEN MMKVVersionRandomIV ELSE @,
                  !.sequence = IF increaseSequence THEN @ + 1 ELSE @]
  IN [W EXCEPT !.d.actualSize = size, !.s.actualSize = size,
               !.s.meta = meta1, !.m = meta1]

\* checkFileCRCValid(actualSize, crcDigest): [W, ok]
checkFileCRCValid(W, actualSize, crcDigest) ==
  LET crc == CRC32(0, Payload(W.d, actualSize))
  IN [W |-> [W EXCEPT !.s.crcDigest = crc], ok |-> (crc = crcDigest)]

\* recaculateCRCDigestWithIV that writes the digest the instance holds
\* without computing it over the payload
recaculateCRCDigestWithIV_Stale(W, iv) ==
  writeActualSize(W, W.s.actualSize, W.s.crcDigest, iv, TRUE)

\* recaculateCRCDigestWithIV(iv)
recaculateCRCDigestWithIV(W, iv) ==
  LET crc == CRC32(0, Payload(W.d, W.s.actualSize))
  IN writeActualSize([W EXCEPT !.s.crcDigest = crc],
                     W.s.actualSize, crc, iv, TRUE)

\* updateCRCDigest that folds the CRC and leaves out writeActualSize: the
\* header and the meta file keep what they held
updateCRCDigest_NoMeta(W, bytes) ==
  [W EXCEPT !.s.crcDigest = CRC32(W.s.crcDigest, bytes)]

\* updateCRCDigest that writes the meta file with IncreaseSequence
updateCRCDigest_IncreaseSequence(W, bytes) ==
  LET crc == CRC32(W.s.crcDigest, bytes)
  IN writeActualSize([W EXCEPT !.s.crcDigest = crc],
                     W.s.actualSize, crc, NoIV, TRUE)

\* updateCRCDigest(ptr, length) for the bytes just appended
updateCRCDigest(W, bytes) ==
  LET crc == CRC32(W.s.crcDigest, bytes)
  IN writeActualSize([W EXCEPT !.s.crcDigest = crc],
                     W.s.actualSize, crc, NoIV, FALSE)

\* MMKVErrorType
ErrorTypes == {"MMKVCRCCheckFail", "MMKVFileLength"}

\* The error handlers an application registers, named by what they return:
\* one strategy whatever the error, or a strategy per error type
Handlers ==
  {"OnErrorDiscard", "OnErrorRecover", "DiscardOnCRC", "DiscardOnLength"}

\* g_errorHandler(mmapID, errorType) for the handler named handler
CallHandler(handler, errorType) ==
  CASE handler = "OnErrorDiscard" -> "OnErrorDiscard"
    [] handler = "OnErrorRecover" -> "OnErrorRecover"
    [] handler = "DiscardOnCRC" ->
         IF errorType = "MMKVCRCCheckFail" THEN "OnErrorDiscard"
         ELSE "OnErrorRecover"
    [] handler = "DiscardOnLength" ->
         IF errorType = "MMKVFileLength" THEN "OnErrorDiscard"
         ELSE "OnErrorRecover"

\* MMKVRecoverStrategic onMMKVCRCCheckFail(const string &mmapID)
onMMKVCRCCheckFail ==
  IF g_errorHandler # "null"
  THEN CallHandler(g_errorHandler, "MMKVCRCCheckFail")
  ELSE "OnErrorDiscard"

\* MMKVRecoverStrategic onMMKVFileLengthError(const string &mmapID)
onMMKVFileLengthError ==
  IF g_errorHandler # "null"
  THEN CallHandler(g_errorHandler, "MMKVFileLength")
  ELSE "OnErrorDiscard"

\* clearMemoryCache() without m_hasFullWriteback = false: the flag of the
\* index that was dropped stays with the instance
clearMemoryCache_KeepFlag(W) ==
  IF W.s.needLoad THEN W
  ELSE [W EXCEPT
          !.s.needLoad = TRUE,
          !.s.dicCrypt = {},
          !.s.dic = {},
          !.s.crypter = IF ~@.on THEN @
                        ELSE IF W.s.meta.version >= MMKVVersionRandomIV
                             THEN resetIV(@, W.s.meta.vector)
                             ELSE resetIVDefault(@),
          !.s.fileSize = 0,
          !.s.actualSize = 0,
          !.s.meta.crcDigest = 0]

\* clearMemoryCache()
clearMemoryCache(W) ==
  IF W.s.needLoad THEN W
  ELSE [W EXCEPT
          !.s.needLoad = TRUE,
          !.s.dicCrypt = {},
          !.s.dic = {},
          !.s.hasFullWriteback = FALSE,
          !.s.crypter = IF ~@.on THEN @
                        ELSE IF W.s.meta.version >= MMKVVersionRandomIV
                             THEN resetIV(@, W.s.meta.vector)
                             ELSE resetIVDefault(@),
          !.s.fileSize = 0,
          !.s.actualSize = 0,
          !.s.meta.crcDigest = 0]

\* The records of the live index, one per holder, in the map's iteration
\* order (unspecified, fixed for a given map)
RECURSIVE SerializeDic(_, _, _)
SerializeDic(s, d, dic) ==
  IF dic = {} THEN <<>>
  ELSE LET h == CHOOSE x \in dic : TRUE
       IN EncodeRecord(h.key, HolderValue(s, d, h))
            \o SerializeDic(s, d, dic \ {h})

RECURSIVE DoubleUntil(_, _)
DoubleUntil(size, needed) ==
  IF size >= needed \/ size = 0 THEN size ELSE DoubleUntil(size * 2, needed)

\* A truncate that leaves the file at its size
growFile_NoGrow(W, needed) == W

\* truncate(newSize): the file grows on disk and the caller's mapping with it
growFile(W, needed) ==
  LET newSize == DoubleUntil(W.s.fileSize, needed)
  IN [W EXCEPT !.d.size = newSize, !.s.fileSize = newSize,
               !.lim = @ \/ newSize > MaxFileSize]

\* fullWriteback() that keeps the index it had: the holders still point
\* into the payload that was overwritten
fullWriteback_StaleIndex(W, newIV) ==
  IF W.s.hasFullWriteback THEN W
  ELSE
    LET plain == SerializeDic(W.s, W.d, CurrentDic(W.s))
        Wg == IF Len(plain) + Fixed32Size <= W.s.fileSize THEN W
              ELSE growFile(W, Len(plain) + Fixed32Size)
        enc == IF W.s.crypter.on
               THEN Encrypt(W.s.crypter, W.s.crypter.st, plain)
               ELSE [out |-> plain, st |-> 0]
        Ww == [Wg EXCEPT
                 !.d.bytes = enc.out,
                 !.s.actualSize = Len(plain),
                 !.s.crypter.st = enc.st,
                 !.s.hasFullWriteback = TRUE]
    IN recaculateCRCDigestWithIV(Ww, NoIV)

\* fullWriteback(): rewrite the payload from the live index (re-encrypted
\* from a fresh IV in crypt mode), recompute the CRC, write the meta file
\* with IncreaseSequence and rebuild the index over the new payload.
fullWriteback(W, newIV) ==
  IF W.s.hasFullWriteback THEN W
  ELSE
    LET plain == SerializeDic(W.s, W.d, CurrentDic(W.s))
        random == W.s.crypter.on /\ W.s.meta.version >= MMKVVersionRandomIV
        c0 == IF ~W.s.crypter.on THEN W.s.crypter
              ELSE IF random THEN resetIV(W.s.crypter, newIV)
              ELSE resetIVDefault(W.s.crypter)
        enc == IF c0.on THEN Encrypt(c0, c0.st, plain)
               ELSE [out |-> plain, st |-> 0]
        sts == IF c0.on THEN Decrypt(c0, c0.st, enc.out).sts
               ELSE [i \in 1..Len(plain) |-> 0]
        Wg == IF Len(plain) + Fixed32Size <= W.s.fileSize THEN W
              ELSE growFile(W, Len(plain) + Fixed32Size)
        Ww == [Wg EXCEPT
                 !.d.bytes = enc.out,
                 !.s.actualSize = Len(plain),
                 !.s.crypter = [c0 EXCEPT !.st = enc.st],
                 !.s = WithCurrentDic(@, DecodeMapFrom(plain, sts, 1, {})),
                 !.s.hasFullWriteback = TRUE]
    IN recaculateCRCDigestWithIV(Ww, IF random THEN newIV ELSE NoIV)

\* loadFromFile(): read the header and the meta file, check length and CRC,
\* and rebuild the index of the current crypt mode from the payload.  On an
\* error the handler decides: discard (empty payload, meta reset) or index
\* what parses and write it back; the vector of that write-back is taken to
\* be the one the meta file holds.
loadFromFile(W) ==
  LET c0 == IF W.s.crypter.on /\ W.m.version >= MMKVVersionRandomIV
            THEN resetIV(W.s.crypter, W.m.vector) ELSE W.s.crypter
      W0 == [W EXCEPT !.s.meta = W.m, !.s.fileSize = W.d.size,
                      !.s.crypter = c0]
      actual == W.d.actualSize
      lengthOk == actual + Fixed32Size <= W.d.size
      chk == checkFileCRCValid(W0, actual, W.m.crcDigest)
      strategy == IF ~lengthOk THEN onMMKVFileLengthError
                  ELSE IF ~chk.ok THEN onMMKVCRCCheckFail
                  ELSE "ok"
      size == Min(actual, W.d.size - Fixed32Size)
      raw == Payload(W.d, size)
      dec == IF c0.on THEN Decrypt(c0, c0.st, raw)
             ELSE [out |-> raw, sts |-> [i \in 1..Len(raw) |-> 0],
                   st |-> 0]
      idx == DecodeMapFrom(dec.out, dec.sts, 1, {})
      loaded == [chk.W EXCEPT
                   !.s = WithCurrentDic(@, idx),
                   !.s.actualSize = size,
                   !.s.crypter.st = dec.st,
                   !.s.needLoad = FALSE]
      emptied == [chk.W EXCEPT
                    !.s = WithCurrentDic(@, {}),
                    !.s.actualSize = 0,
                    !.d.bytes = <<>>,
                    !.s.needLoad = FALSE]
  IN IF CurrentDicIsNull(W.s) THEN Crash(W)
     ELSE IF strategy = "ok" THEN loaded
     ELSE IF strategy = "OnErrorDiscard"
          THEN recaculateCRCDigestWithIV(emptied, NoIV)
          ELSE fullWriteback(loaded, loaded.s.meta.vector)

\* checkLoadData(): load when needed; otherwise compare the meta file with
\* the MMKVMetaInfo the instance holds and reload when a peer changed it.
checkLoadData(W) ==
  IF /\ ~W.s.needLoad
     /\ W.s.meta.sequence = W.m.sequence
     /\ W.s.meta.crcDigest = W.m.crcDigest
     /\ W.s.meta.actualSize = W.m.actualSize
  THEN W
  ELSE loadFromFile(clearMemoryCache(W))

\* The end of ensureMemorySize, after the full write-back: the file grows
\* when the live records and the new one still do not fit.
expandIfNeeded(W, recLen) ==
  IF Fixed32Size + W.s.actualSize + recLen > W.s.fileSize
  THEN growFile(W, Fixed32Size + W.s.actualSize + recLen)
  ELSE W

\* ensureMemorySize(newSize): when the record does not fit behind the
\* payload, compact, and grow the file if the live records and the new one
\* still do not fit.
ensureMemorySize(W, recLen, newIV) ==
  IF Fixed32Size + W.s.actualSize + recLen <= W.s.fileSize THEN W
  ELSE expandIfNeeded(fullWriteback(W, newIV), recLen)

\* The append of appendDataWithKey, once ensureMemorySize has made room
appendRecord(W, rec, data, key) ==
  LET c == W.s.crypter
      enc == IF c.on THEN Encrypt(c, c.st, rec)
             ELSE [out |-> rec, st |-> 0]
      sts == IF c.on THEN Decrypt(c, c.st, enc.out).sts
             ELSE [i \in 1..Len(rec) |-> 0]
      valAt == Len(rec) - Len(data) + 1
      h == [key |-> key, off |-> W.s.actualSize + valAt, len |-> Len(data),
            st |-> IF Len(data) > 0 THEN sts[valAt] ELSE 0]
      dic == IF Len(data) = 0 THEN Erase(CurrentDic(W.s), key)
             ELSE Erase(CurrentDic(W.s), key) \cup {h}
  IN updateCRCDigest(
       [W EXCEPT
          !.d.bytes = Payload(W.d, W.s.actualSize) \o enc.out,
          !.s = WithCurrentDic(@, dic),
          !.s.crypter.st = enc.st,
          !.s.actualSize = @ + Len(rec),
          !.s.hasFullWriteback = FALSE],
       enc.out)

\* appendDataWithKey(data, key): the record goes behind the payload
\* (encrypted in place in crypt mode), the index entry of the key is
\* replaced, or erased when data is empty, and the CRC and the meta file
\* follow with KeepSequence.
appendDataWithKey(W, data, key, newIV) ==
  appendRecord(ensureMemorySize(W, Len(EncodeRecord(key, data)), newIV),
               EncodeRecord(key, data), data, key)

\* setDataForKey after its checkLoadData()
setLoaded(W, data, key, newIV) ==
  IF W.s.crashed THEN [W |-> W, ret |-> FALSE]
  ELSE IF CurrentDicIsNull(W.s) THEN [W |-> Crash(W), ret |-> FALSE]
  ELSE [W |-> appendDataWithKey(W, data, key, newIV), ret |-> TRUE]

\* setDataForKey(data, key): [W, ret]; an empty key fails without altering
\* state
setDataForKey(W, data, key, newIV) ==
  IF Len(key) = 0 THEN [W |-> W, ret |-> FALSE]
  ELSE setLoaded(checkLoadData(W), data, key, newIV)

\* removeDataForKey(key): a record with valLen = 0 through the append path
removeDataForKey(W, key, newIV) ==
  IF CurrentDicIsNull(W.s) THEN Crash(W)
  ELSE appendDataWithKey(W, <<>>, key, newIV)

\* getDataForKey after its checkLoadData()
getLoaded(W, key) ==
  IF W.s.crashed THEN [W |-> W, data |-> <<>>]
  ELSE IF CurrentDicIsNull(W.s) THEN [W |-> Crash(W), data |-> <<>>]
  ELSE IF Find(CurrentDic(W.s), key) = {} THEN [W |-> W, data |-> <<>>]
  ELSE [W |-> W,
        data |-> HolderValue(W.s, W.d,
                             CHOOSE h \in Find(CurrentDic(W.s), key) : TRUE)]

\* getDataForKey(key): [W, data]; an empty buffer when the key is absent
getDataForKey(W, key) == getLoaded(checkLoadData(W), key)

\* ------------------------------------------------------------------------
\* The public operations of MMKV.cpp
\* ------------------------------------------------------------------------

isKeyEmpty(key) == Len(key) = 0

\* A constructor that starts with m_needLoadFromFile = false and does not
\* load: the instance takes its empty index for the content of the file
Construct_NoLoad(d, m, cryptKey) ==
  LET s == [NoInst EXCEPT
              !.open = TRUE,
              !.hasDicCrypt = (Len(cryptKey) > 0),
              !.hasDic = ~(Len(cryptKey) > 0),
              !.crypter = IF Len(cryptKey) > 0 THEN NewAESCrypt(cryptKey)
                          ELSE NoCrypter,
              !.needLoad = FALSE,
              !.meta = m,
              !.fileSize = IF d.size < PageSize THEN PageSize ELSE d.size]
      d1 == [d EXCEPT !.size = IF @ < PageSize THEN PageSize ELSE @]
  IN World(d1, m, s)

\* MMKV::MMKV(mmapID, mode, cryptKey, relativePath): exactly one of the two
\* maps is created, by the crypt key; then loadFromFile()
Construct(d, m, cryptKey) ==
  LET s == [NoInst EXCEPT
              !.open = TRUE,
              !.hasDicCrypt = (Len(cryptKey) > 0),
              !.hasDic = ~(Len(cryptKey) > 0),
              !.crypter = IF Len(cryptKey) > 0 THEN NewAESCrypt(cryptKey)
                          ELSE NoCrypter,
              !.needLoad = TRUE,
              !.hasFullWriteback = FALSE,
              !.crcDigest = 0,
              !.actualSize = 0]
      d1 == [d EXCEPT !.size = IF @ < PageSize THEN PageSize ELSE @]
  IN loadFromFile(World(d1, m, s))

\* MMKV::~MMKV(): clearMemoryCache(), then every member is deleted
Destroy(W) == [clearMemoryCache(W) EXCEPT !.s = NoInst]

\* MMKV::close(): the instance leaves the registry and is deleted
close(W) == Destroy(W)

\* bool MMKV::set(int32_t value, MMKVKey_t key): [W, ret]
set_int32(W, value, key, newIV) ==
  IF isKeyEmpty(key) THEN [W |-> W, ret |-> FALSE]
  ELSE setDataForKey(W, writeInt32(value), key, newIV)

\* removeValueForKey after its checkLoadData()
removeLoaded(W, key, newIV) ==
  IF W.s.crashed THEN W ELSE removeDataForKey(W, key, newIV)

\* void MMKV::removeValueForKey(MMKVKey_t key)
removeValueForKey(W, key, newIV) ==
  IF isKeyEmpty(key) THEN W
  ELSE removeLoaded(checkLoadData(W), key, newIV)

\* set(const char *, key) that returns true for a null value without
\* removing the key
set_cstr_NoRemove(W, isNull, value, key, newIV) ==
  IF isNull THEN [W |-> W, ret |-> TRUE]
  ELSE setDataForKey(W, writeString(value), key, newIV)

\* bool MMKV::set(const char *value, MMKVKey_t key): value is null (isNull)
\* or the bytes of the C string
set_cstr(W, isNull, value, key, newIV) ==
  IF isNull THEN [W |-> removeValueForKey(W, key, newIV), ret |-> TRUE]
  ELSE setDataForKey(W, writeString(value), key, newIV)

\* The end of getInt32: CodedInputData::readInt32 on the buffer g.data that
\* getDataForKey returned
readInt32(g, defaultValue) ==
  IF Len(g.data) > 0 /\ ReadVarint(g.data, 1).ok
  THEN [W |-> g.W, ret |-> ReadVarint(g.data, 1).val]
  ELSE [W |-> g.W, ret |-> defaultValue]

\* getInt32 with the length test off by one: a one-byte value reads as absent
getInt32_OffByOne(W, key, defaultValue) ==
  IF isKeyEmpty(key) THEN [W |-> W, ret |-> defaultValue]
  ELSE LET g == getDataForKey(W, key)
           v == ReadVarint(g.data, 1)
       IN IF Len(g.data) > 1 /\ v.ok THEN [W |-> g.W, ret |-> v.val]
          ELSE [W |-> g.W, ret |-> defaultValue]

\* int32_t MMKV::getInt32(MMKVKey_t key, int32_t defaultValue): [W, ret]
getInt32(W, key, defaultValue) ==
  IF isKeyEmpty(key) THEN [W |-> W, ret |-> defaultValue]
  ELSE readInt32(getDataForKey(W, key), defaultValue)

\* containsKey after its checkLoadData()
containsLoaded(W, key) ==
  IF W.s.crashed THEN [W |-> W, ret |-> FALSE]
  ELSE IF CurrentDicIsNull(W.s) THEN [W |-> Crash(W), ret |-> FALSE]
  ELSE [W |-> W, ret |-> Find(CurrentDic(W.s), key) # {}]

\* bool MMKV::containsKey(MMKVKey_t key): [W, ret]
containsKey(W, key) == containsLoaded(checkLoadData(W), key)

\* allKeys after its checkLoadData()
allKeysLoaded(W) ==
  IF W.s.crashed THEN [W |-> W, ret |-> {}]
  ELSE IF CurrentDicIsNull(W.s) THEN [W |-> Crash(W), ret |-> {}]
  ELSE [W |-> W, ret |-> {h.key : h \in CurrentDic(W.s)}]

\* vector<string> MMKV::allKeys(): [W, ret], the keys as a set
allKeys(W) == allKeysLoaded(checkLoadData(W))

\* count after its checkLoadData()
countLoaded(W) ==
  IF W.s.crashed THEN [W |-> W, ret |-> 0]
  ELSE IF CurrentDicIsNull(W.s) THEN [W |-> Crash(W), ret |-> 0]
  ELSE [W |-> W, ret |-> Cardinality(CurrentDic(W.s))]

\* size_t MMKV::count(): [W, ret]
count(W) == countLoaded(checkLoadData(W))

\* The erase loop that leaves m_hasFullWriteback as it was: after a full
\* write-back the next one is skipped
eraseLoaded_KeepFlag(W, named, newIV) ==
  LET dic == CurrentDic(W.s)
      deleteCount == Cardinality({h \in dic : h.key \in named})
  IN IF W.s.crashed THEN W
     ELSE IF CurrentDicIsNull(W.s) THEN Crash(W)
     ELSE IF deleteCount > 0
          THEN fullWriteback(
                 [W EXCEPT
                    !.s = WithCurrentDic(@, {h \in dic : h.key \notin named})],
                 newIV)
          ELSE W

\* removeValuesForKeys after its checkLoadData(): the named keys leave the
\* index and, when one was there, the full write-back follows
eraseLoaded(W, named, newIV) ==
  LET dic == CurrentDic(W.s)
      deleteCount == Cardinality({h \in dic : h.key \in named})
  IN IF W.s.crashed THEN W
     ELSE IF CurrentDicIsNull(W.s) THEN Crash(W)
     ELSE IF deleteCount > 0
          THEN fullWriteback(
                 [W EXCEPT
                    !.s = WithCurrentDic(@, {h \in dic : h.key \notin named}),
                    !.s.hasFullWriteback = FALSE],
                 newIV)
          ELSE W

\* removeValuesForKeys without its checkLoadData(): the index the process
\* holds is compacted whatever another process has written since
removeValuesForKeys_Stale(W, arrKeys, newIV) ==
  IF Len(arrKeys) = 0 THEN W
  ELSE IF Len(arrKeys) = 1 THEN removeValueForKey(W, arrKeys[1], newIV)
  ELSE IF W.s.needLoad THEN eraseLoaded(checkLoadData(W), Range(arrKeys), newIV)
  ELSE eraseLoaded(W, Range(arrKeys), newIV)

\* void MMKV::removeValuesForKeys(const vector<string> &arrKeys)
removeValuesForKeys(W, arrKeys, newIV) ==
  IF Len(arrKeys) = 0 THEN W
  ELSE IF Len(arrKeys) = 1 THEN removeValueForKey(W, arrKeys[1], newIV)
  ELSE eraseLoaded(checkLoadData(W), Range(arrKeys), newIV)

\* void MMKV::checkContentChanged()
checkContentChanged(W) == checkLoadData(W)

\* string MMKV::cryptKey(): the key buffer up to its first zero byte
cryptKey(s) ==
  IF s.crypter.on
  THEN LET zeros == {i \in 1..AES_KEY_LEN : s.crypter.key[i] = 0}
           n == IF zeros = {} THEN AES_KEY_LEN
                ELSE (CHOOSE i \in zeros : \A j \in zeros : i <= j) - 1
       IN SubSeq(s.crypter.key, 1, n)
  ELSE <<>>

\* void MMKV::checkReSetCryptKey(const string *cryptKey): newKey is the
\* string pointed to, empty for a null pointer as for an empty string
checkReSetCryptKey(W, newKey) ==
  IF W.s.crypter.on
  THEN IF Len(newKey) > 0
       THEN IF cryptKey(W.s) # newKey
            THEN checkLoadData([W EXCEPT !.s.crypter = NewAESCrypt(newKey)])
            ELSE W
       ELSE checkLoadData([W EXCEPT !.s.crypter = NoCrypter])
  ELSE IF Len(newKey) > 0
       THEN checkLoadData([W EXCEPT !.s.crypter = NewAESCrypt(newKey)])
       ELSE W

\* The end of getString: CodedInputData::readString on the buffer g.data
\* that getDataForKey returned
readString(g) ==
  LET n == ReadVarint(g.data, 1)
  IN IF Len(g.data) > 0 /\ n.ok /\ n.next + n.val - 1 <= Len(g.data)
     THEN [W |-> g.W, ret |-> TRUE, result |-> Slice(g.data, n.next, n.val)]
     ELSE [W |-> g.W, ret |-> FALSE, result |-> <<>>]

\* bool MMKV::getString(MMKVKey_t key, string &result): [W, ret, result]
getString(W, key) ==
  IF isKeyEmpty(key) THEN [W |-> W, ret |-> FALSE, result |-> <<>>]
  ELSE readString(getDataForKey(W, key))

\* ------------------------------------------------------------------------
\* The engine specification: one process opens the store, works on it,
\* closes and reopens it; each public operation runs under m_lock and the
\* inter-process lock its code takes, and is one step.
\* ------------------------------------------------------------------------

\* The crypt keys of the application: none, and a three-byte key
CryptKeyA == <<97, 98, 99>>

\* The C strings written with set(const char *, key)
CStrings == {<<>>}

\* The key lists given to removeValuesForKeys
KeyLists ==
  {<<>>} \cup {<<k>> : k \in Keys} \cup {<<k1, k2>> : k1 \in Keys, k2 \in Keys}

Absent == [has |-> FALSE, isStr |-> FALSE, int |-> 0, str |-> <<>>]

IntValue(v) == [has |-> TRUE, isStr |-> FALSE, int |-> v, str |-> <<>>]

StrValue(str) == [has |-> TRUE, isStr |-> TRUE, int |-> 0, str |-> str]

WorldOf(p) == World(dataFile, metaFile, inst[p])

\* The step of process p that leaves the world W
Commit(p, W) ==
  /\ ~W.lim
  /\ W.m.sequence <= MaxSeq
  /\ dataFile' = W.d
  /\ metaFile' = W.m
  /\ inst' = [inst EXCEPT ![p] = W.s]
  /\ UNCHANGED <<g_errorHandler, appKey>>
  /\ UNCHANGED lockVars

Running(p) == inst[p].open /\ ~inst[p].crashed

\* The step of a set that returned r = [W, ret]: the callers have put val
\* under key when it returned true
CommitPut(p, r, key, val) ==
  /\ Commit(p, r.W)
  /\ model' = IF isKeyEmpty(key) \/ r.W.s.crashed \/ ~r.ret THEN model
              ELSE [model EXCEPT ![key] = val]

\* The step of a remove of the keys named that left the world W
CommitRemove(p, W, named) ==
  /\ Commit(p, W)
  /\ model' = IF W.s.crashed THEN model
              ELSE [k \in Keys |-> IF k \in named THEN Absent ELSE model[k]]

\* fullWriteback() after the checkLoadData() of its caller
fullWritebackLoaded(W, newIV) ==
  IF W.s.crashed \/ CurrentDicIsNull(W.s) THEN Crash(W)
  ELSE fullWriteback(W, newIV)

\* The vector a full write-back of process p may draw: a random one when the
\* store is encrypted with version >= MMKVVersionRandomIV, none otherwise
NewIVs(p) ==
  IF inst[p].crypter.on /\ metaFile.version >= MMKVVersionRandomIV THEN IVs
  ELSE {NoIV}

Init ==
  /\ dataFile = [size |-> 0, actualSize |-> 0, bytes |-> <<>>]
  /\ appKey \in {<<>>, CryptKeyA}
  /\ metaFile \in {[ZeroMeta EXCEPT !.version = v] :
                     v \in IF appKey = <<>> THEN {MMKVVersionDefault}
                           ELSE {MMKVVersionDefault, MMKVVersionRandomIV}}
  /\ inst = [p \in Procs |-> NoInst]
  /\ g_errorHandler = "null"
  /\ model = [k \in Keys |-> Absent]
  /\ LockInit

\* MMKV::mmkvWithID(mmapID, mode, cryptKey, relativePath) on a process whose
\* registry does not hold the store
Open(p) ==
  /\ ~inst[p].open /\ ~inst[p].crashed
  /\ Commit(p, Construct(dataFile, metaFile, appKey))
  /\ UNCHANGED model

Close(p) ==
  /\ Running(p)
  /\ Commit(p, close(WorldOf(p)))
  /\ UNCHANGED model

SetInt32(p, key, value, newIV) ==
  /\ Running(p)
  /\ CommitPut(p, set_int32(WorldOf(p), value, key, newIV), key,
               IntValue(value))

SetCStr(p, isNull, value, key, newIV) ==
  /\ Running(p)
  /\ CommitPut(p, set_cstr(WorldOf(p), isNull, value, key, newIV), key,
               IF isNull THEN Absent ELSE StrValue(value))

RemoveValueForKey(p, key, newIV) ==
  /\ Running(p)
  /\ CommitRemove(p, removeValueForKey(WorldOf(p), key, newIV), {key})

RemoveValuesForKeys(p, arrKeys, newIV) ==
  /\ Running(p)
  /\ CommitRemove(p, removeValuesForKeys(WorldOf(p), arrKeys, newIV),
                  Range(arrKeys))

\* fullWriteback() called on its own, as its callers do: under m_lock and
\* the exclusive lock, after checkLoadData()
FullWriteback(p, newIV) ==
  /\ Running(p)
  /\ Commit(p, fullWritebackLoaded(checkLoadData(WorldOf(p)), newIV))
  /\ UNCHANGED model

GetInt32(p, key) ==
  /\ Running(p)
  /\ Commit(p, getInt32(WorldOf(p), key, DefaultValue).W)
  /\ UNCHANGED model

GetString(p, key) ==
  /\ Running(p)
  /\ Commit(p, getString(WorldOf(p), key).W)
  /\ UNCHANGED model

ContainsKey(p, key) ==
  /\ Running(p)
  /\ Commit(p, containsKey(WorldOf(p), key).W)
  /\ UNCHANGED model

AllKeysOp(p) ==
  /\ Running(p)
  /\ Commit(p, allKeys(WorldOf(p)).W)
  /\ UNCHANGED model

ClearMemoryCache(p) ==
  /\ Running(p)
  /\ Commit(p, clearMemoryCache(WorldOf(p)))
  /\ UNCHANGED model

CheckContentChanged(p) ==
  /\ Running(p)
  /\ Commit(p, checkContentChanged(WorldOf(p)))
  /\ UNCHANGED model

Next ==
  \E p \in {Main} :
    \/ Open(p)
    \/ Close(p)
    \/ \E k \in AllKeys, v \in Values, iv \in NewIVs(p) : SetInt32(p, k, v, iv)
    \/ \E k \in AllKeys, n \in BOOLEAN, str \in CStrings, iv \in NewIVs(p) :
         SetCStr(p, n, str, k, iv)
    \/ \E k \in AllKeys, iv \in NewIVs(p) : RemoveValueForKey(p, k, iv)
    \/ \E ks \in KeyLists, iv \in NewIVs(p) : RemoveValuesForKeys(p, ks, iv)
    \/ \E iv \in NewIVs(p) : FullWriteback(p, iv)
    \/ \E k \in AllKeys : GetInt32(p, k)
    \/ \E k \in AllKeys : GetString(p, k)
    \/ \E k \in AllKeys : ContainsKey(p, k)
    \/ AllKeysOp(p)
    \/ ClearMemoryCache(p)
    \/ CheckContentChanged(p)

Spec == Init /\ [][Next]_vars

\* ------------------------------------------------------------------------
\* What a caller observes
\* ------------------------------------------------------------------------

\* What the reads of the instance of world W return for key k:
\* containsKey, getInt32 with the default, getString, membership in
\* allKeys, and whether a read brought the process down.
ViewOf(W, k) ==
  LET gi == getInt32(W, k, DefaultValue)
      gs == getString(W, k)
  IN [contains |-> containsKey(W, k).ret,
      int |-> gi.ret,
      strOk |-> gs.ret,
      str |-> gs.result,
      listed |-> k \in allKeys(W).ret,
      crashed |-> gi.W.s.crashed]

View(p, k) == ViewOf(WorldOf(p), k)

\* The reads of a key that is not in the store
AbsentView(v) ==
  /\ ~v.contains
  /\ v.int = DefaultValue
  /\ ~v.strOk
  /\ ~v.listed
  /\ ~v.crashed

\* A world within the bounds of the model
Bounded(W) == ~W.lim /\ W.m.sequence <= MaxSeq

\* C1: round trip and last write wins.  In every state reached by sets and
\* removes (compactions and file growth included), getInt32(k) returns the
\* value of the most recent set(k, v) that no remove of k follows, and the
\* caller's default otherwise; getString likewise for a string value.
C1_LastWriteWins ==
  \A k \in Keys :
    Running(Main) =>
      LET v == View(Main, k)
      IN /\ ~v.crashed
         /\ (model[k].has /\ ~model[k].isStr) => v.int = model[k].int
         /\ (model[k].has /\ model[k].isStr) =>
              v.strOk /\ v.str = model[k].str
         /\ ~model[k].has => v.int = DefaultValue /\ ~v.strOk

\* Key <<1>> was set several times, last to BigValue, the file has grown and
\* was compacted, and records were appended behind the compacted payload.
C1_Witness ==
  /\ Running(Main)
  /\ model[<<1>>] = IntValue(BigValue)
  /\ ~model[<<2>>].has
  /\ dataFile.size > PageSize
  /\ metaFile.sequence > 0
  /\ ~inst[Main].hasFullWriteback
  /\ dataFile.actualSize > Len(EncodeRecord(<<1>>, writeInt32(BigValue)))
  /\ View(Main, <<1>>).int = BigValue

\* The worlds that removing key k leaves: by removeValueForKey(k) and by
\* set(k) with a null C string
AfterRemove(p, k) ==
  {W \in UNION {{removeValueForKey(WorldOf(p), k, iv),
                 set_cstr(WorldOf(p), TRUE, <<>>, k, iv).W} :
                iv \in NewIVs(p)} : Bounded(W)}

\* C2: tombstone.  From every state, a remove of a non-empty key k leaves
\* containsKey(k) false, getInt32(k, d) = d and allKeys() without k, and
\* every other key with the presence and value it had; set(k) with a null
\* C string returns true; and a key removed and not set since stays absent.
C2_Tombstone ==
  \A k \in Keys :
    Running(Main) =>
      /\ \A W \in AfterRemove(Main, k) :
           /\ AbsentView(ViewOf(W, k))
           /\ \A k2 \in Keys \ {k} : ViewOf(W, k2) = View(Main, k2)
      /\ \A iv \in NewIVs(Main) :
           set_cstr(WorldOf(Main), TRUE, <<>>, k, iv).ret
      /\ ~model[k].has => AbsentView(View(Main, k))

\* Scenario S1 has run: key <<1>> was set and removed (its tombstone is the
\* last record of the log) while key <<2>> holds BigValue.
C2_Witness ==
  /\ Running(Main)
  /\ appKey = <<>>
  /\ ~model[<<1>>].has
  /\ model[<<2>>] = IntValue(BigValue)
  /\ dataFile.actualSize >= 3
  /\ SubSeq(dataFile.bytes, dataFile.actualSize - 2, dataFile.actualSize)
       = EncodeRecord(<<1>>, <<>>)
  /\ allKeys(WorldOf(Main)).ret = {<<2>>}
  /\ View(Main, <<1>>).int = DefaultValue
  /\ View(Main, <<2>>).int = BigValue

\* The world of the instance that mmkvWithID constructs after close(), with
\* the same crypt key
Reopened(W) ==
  LET Wc == close(W) IN Construct(Wc.d, Wc.m, appKey)

\* C3: durability across reopen.  From every state, what the reads return
\* on the instance opened after close() is what they return before it;
\* and while the store is closed, opening it shows what the callers put.
C3_ReopenKeepsMap ==
  \A k \in Keys :
    /\ Running(Main) =>
         ViewOf(Reopened(WorldOf(Main)), k) = View(Main, k)
    /\ (~inst[Main].open /\ ~inst[Main].crashed) =>
         LET v == ViewOf(Construct(dataFile, metaFile, appKey), k)
         IN /\ v.contains = model[k].has
            /\ (model[k].has /\ ~model[k].isStr) => v.int = model[k].int
            /\ (model[k].has /\ model[k].isStr) =>
                 v.strOk /\ v.str = model[k].str

\* The store was closed with a key in it, after a compaction, with records
\* appended behind the compacted payload, and reopening it finds the key.
C3_Witness ==
  /\ ~inst[Main].open
  /\ ~inst[Main].crashed
  /\ model[<<1>>] = IntValue(BigValue)
  /\ metaFile.sequence > 0
  /\ dataFile.actualSize > Len(EncodeRecord(<<1>>, writeInt32(BigValue)))
  /\ ViewOf(Construct(dataFile, metaFile, appKey), <<1>>).int = BigValue

\* ------------------------------------------------------------------------
\* Two processes on one store (MMKV_MULTI_PROCESS)
\* ------------------------------------------------------------------------

\* Each process opens the store with the same crypt key; an encrypted store
\* carries its IV in the meta file (MMKVVersionRandomIV).
InitMP ==
  /\ dataFile = [size |-> 0, actualSize |-> 0, bytes |-> <<>>]
  /\ appKey \in {<<>>, CryptKeyA}
  /\ metaFile = [ZeroMeta EXCEPT
                   !.version = IF appKey = <<>> THEN MMKVVersionDefault
                               ELSE MMKVVersionRandomIV]
  /\ inst = [p \in Procs |-> NoInst]
  /\ g_errorHandler = "null"
  /\ model = [k \in Keys |-> Absent]
  /\ LockInit

\* The key lists of two keys, which removeValuesForKeys takes out by a full
\* write-back
KeyPairs == {<<k1, k2>> : k1 \in Keys, k2 \in Keys}

NextMP ==
  \E p \in Procs :
    \/ Open(p)
    \/ \E k \in Keys, v \in Values : \E iv \in NewIVs(p) :
         SetInt32(p, k, v, iv)
    \/ \E ks \in KeyPairs : \E iv \in NewIVs(p) :
         RemoveValuesForKeys(p, ks, iv)
    \/ \E iv \in NewIVs(p) : FullWriteback(p, iv)
    \/ \E k \in Keys : GetInt32(p, k)
    \/ CheckContentChanged(p)

SpecMP == InitMP /\ [][NextMP]_vars

\* What get and containsKey return for key k on the instance of world W
GetOf(W, k) ==
  [contains |-> containsKey(W, k).ret,
   int |-> getInt32(W, k, DefaultValue).ret,
   crashed |-> getInt32(W, k, DefaultValue).W.s.crashed]

\* The world of process q once process p has left the world W
PeerWorld(W, q) == World(W.d, W.m, inst[q])

\* The worlds a full write-back of process p leaves, with the keys it
\* names: fullWriteback() on its own, a set whose append overflowed the
\* mapping (the sequence went up), and removeValuesForKeys of two keys.
Compactions(p) ==
  UNION {
    {[W |-> fullWritebackLoaded(checkLoadData(WorldOf(p)), iv), named |-> {}]}
    \cup {[W |-> set_int32(WorldOf(p), v, k, iv).W, named |-> {k}] :
            k \in Keys, v \in Values}
    \cup {[W |-> removeValuesForKeys(WorldOf(p), ks, iv),
           named |-> Range(ks)] : ks \in KeyPairs}
    : iv \in NewIVs(p)}

Compacted(p) ==
  {c \in Compactions(p) : Bounded(c.W) /\ c.W.m.sequence > metaFile.sequence}

\* C4: compaction preserves semantics.  From every state, a full
\* write-back by process p (on its own, by an overflowing append, by
\* removeValuesForKeys) leaves get(k) and containsKey(k) of every key k it
\* does not name as they were, on p and on the other process after its next
\* checkLoadData.
C4_CompactionKeepsGets ==
  \A p \in Procs : \A q \in Procs \ {p} :
    Running(p) =>
      \A c \in Compacted(p) : \A k \in Keys \ c.named :
        /\ GetOf(c.W, k) = GetOf(WorldOf(p), k)
        /\ Running(q) =>
             GetOf(PeerWorld(c.W, q), k) = GetOf(WorldOf(q), k)

\* Both processes run, the peer holds an index that the main process has
\* appended behind since, key <<2>> is in the store, and a set of key <<1>>
\* by the main process overflows the mapping and compacts.
C4_Witness ==
  /\ Running(Main) /\ Running(Peer)
  /\ model[<<2>>] = IntValue(BigValue)
  /\ inst[Peer].meta.crcDigest # metaFile.crcDigest
  /\ inst[Peer].meta.sequence = metaFile.sequence
  /\ \E c \in Compacted(Main) :
       /\ c.named = {<<1>>}
       /\ GetOf(c.W, <<2>>).int = BigValue
       /\ GetOf(PeerWorld(c.W, Peer), <<2>>).int = BigValue

\* The worlds a set(k, v) of process p that returned true leaves
SetsOf(p, k, v) ==
  {r.W : r \in {r \in {set_int32(WorldOf(p), v, k, iv) : iv \in NewIVs(p)} :
                  r.ret /\ Bounded(r.W)}}

\* C5: cross-process visibility.  From every state, once set(k, v) of one
\* process has returned true (an append that keeps the sequence, or one that
\* ran a full write-back and increased it), checkContentChanged() and then
\* get(k) on the other process return v; and what a process reads after
\* checkContentChanged() is, for every key, what the last committed write
\* of either process left.
C5_PeerSeesCommittedWrites ==
  \A p \in Procs : \A q \in Procs \ {p} :
    (Running(p) /\ Running(q)) =>
      /\ \A k \in Keys, v \in Values : \A W \in SetsOf(p, k, v) :
           getInt32(checkContentChanged(PeerWorld(W, q)), k,
                    DefaultValue).ret = v
      /\ \A k \in Keys :
           LET g == GetOf(checkContentChanged(WorldOf(q)), k)
           IN /\ ~g.crashed
              /\ g.contains = model[k].has
              /\ g.int = IF model[k].has THEN model[k].int ELSE DefaultValue

\* Scenarios of both kinds from one state: the peer holds the index of an
\* earlier load, the main process has appended since, and a further set by
\* the main process keeps the sequence for one value and overflows into a
\* full write-back for the other; the peer reads each after
\* checkContentChanged().
C5_Witness ==
  /\ Running(Main) /\ Running(Peer)
  /\ ~inst[Peer].needLoad
  /\ inst[Peer].meta.sequence = metaFile.sequence
  /\ inst[Peer].meta.crcDigest # metaFile.crcDigest
  /\ GetOf(checkContentChanged(WorldOf(Peer)), <<1>>).int = model[<<1>>].int
  /\ model[<<1>>].has
  /\ \E W \in SetsOf(Main, <<2>>, 1) : W.m.sequence = metaFile.sequence
  /\ \E W \in SetsOf(Main, <<2>>, BigValue) :
       /\ W.m.sequence > metaFile.sequence
       /\ getInt32(checkContentChanged(PeerWorld(W, Peer)), <<2>>,
                   DefaultValue).ret = BigValue

\* ------------------------------------------------------------------------
\* Locks.  Each public operation is the list of statements of its code
\* that take or release a lock, with the work done between them; a thread
\* runs one statement per step.
\* ------------------------------------------------------------------------

\* The nested lock() calls a thread may hold before it unlocks
MaxUserLocks == 1

ThreadsOf(p) == {t \in Threads : ProcOf(t) = p}

\* Statements: SCOPED_LOCK(l) / l->lock(); the end of the scope / unlock();
\* work done under the locks; a jump taken when the registry holds the
\* instance
Lock(l) == [do |-> "lock", on |-> l, to |-> 0]
Unlock(l) == [do |-> "unlock", on |-> l, to |-> 0]
Body(what) == [do |-> "body", on |-> what, to |-> 0]
IfFound(to) == [do |-> "jump", on |-> "found", to |-> to]
IfEmpty(to) == [do |-> "jump", on |-> "empty", to |-> to]

\* Operations that write the mapping under the exclusive lock, and
\* operations that read under the shared lock of checkLoadData()
WriteOps == {"set", "removeValueForKey", "removeValuesForKeys"}
ReadOps == {"getInt32", "containsKey", "checkContentChanged"}

\* The public operations on an instance
InstanceOps ==
  WriteOps \cup ReadOps
    \cup {"sync", "clearMemoryCache", "lock", "unlock", "try_lock", "close"}

\* sync: if (m_needLoadFromFile || !isFileValid()) return;
IfUnloaded(to) == [do |-> "test", on |-> "unloaded", to |-> to]

\* A sync that flushes the meta file first
syncProgram_MetaFirst ==
  <<Lock("m"), IfUnloaded(7), Lock("exclusive"),
    Body("msyncMeta"), Body("msyncData"),
    Unlock("exclusive"), Unlock("m")>>

\* void MMKV::sync(SyncFlag flag), statement by statement
syncProgram ==
  <<Lock("m"), IfUnloaded(7), Lock("exclusive"),
    Body("msyncData"), Body("msyncMeta"),
    Unlock("exclusive"), Unlock("m")>>

\* The statements of prog as they stand behind n statements of a longer
\* program: the jumps and tests go n statements further
Shifted(prog, n) ==
  [i \in DOMAIN prog |-> [prog[i] EXCEPT !.to = IF @ = 0 THEN 0 ELSE @ + n]]

\* void MMKV::clearMemoryCache(), statement by statement
clearMemoryCacheProgram == <<Lock("m"), Body("cache"), Unlock("m")>>

\* An onExit that calls kv->clearMemoryCache() before kv->sync()
onExitProgram_CacheFirst ==
  <<Lock("g"), IfEmpty(17)>>
    \o clearMemoryCacheProgram
    \o Shifted(syncProgram, 5)
    \o clearMemoryCacheProgram
    \o <<Body("delete"), Body("exit"), Unlock("g")>>

\* void MMKV::onExit(), for the one instance of the registry: kv->sync(),
\* kv->clearMemoryCache(), delete kv (the destructor calls
\* clearMemoryCache() again), then delete g_instanceDic
onExitProgram ==
  <<Lock("g"), IfEmpty(17)>>
    \o Shifted(syncProgram, 2)
    \o clearMemoryCacheProgram
    \o clearMemoryCacheProgram
    \o <<Body("delete"), Body("exit"), Unlock("g")>>

Program(op) ==
  CASE op \in WriteOps ->
         <<Lock("m"), Lock("exclusive"), Body("write"),
           Unlock("exclusive"), Unlock("m")>>
    [] op \in ReadOps ->
         <<Lock("m"), Lock("shared"), Body("read"),
           Unlock("shared"), Unlock("m")>>
    [] op = "sync" -> syncProgram
    [] op = "clearMemoryCache" -> clearMemoryCacheProgram
    [] op = "lock" -> <<Lock("exclusive")>>
    [] op = "unlock" -> <<Unlock("exclusive")>>
    [] op = "try_lock" -> <<Body("try")>>
    [] op = "mmkvWithID" ->
         <<Lock("g"), IfFound(7), Lock("shared"), Body("load"),
           Unlock("shared"), Body("register"), Unlock("g")>>
    [] op = "close" ->
         <<Lock("g"), Lock("m"), Body("erase"),
           Lock("m"), Body("cache"), Unlock("m"),
           Body("delete"), Unlock("g")>>
    [] op = "onExit" -> onExitProgram

\* The statement thread t is at
At(t) ==
  IF pc[t] = Idle THEN Body("idle") ELSE Program(pc[t].op)[pc[t].i]

\* The thread moves behind statement i of its operation
Step(t, i) ==
  pc' = [pc EXCEPT ![t] = IF i >= Len(Program(pc[t].op)) THEN Idle
                          ELSE [op |-> pc[t].op, i |-> i + 1]]

Next1(t) == Step(t, pc[t].i)

\* ThreadLock::lock() succeeds for the owner and when nobody owns the mutex
CanLock(l, t) == l.owner = NoThread \/ l.owner = t

Locked(l, t) == [owner |-> t, count |-> l.count + 1]

\* ThreadLock::unlock()
Unlocked(l) == IF l.count <= 1 THEN FreeLock ELSE [l EXCEPT !.count = @ - 1]

\* Another process holds a lock of one of the kinds on the meta file
OthersHold(p, kinds) == \E q \in Procs \ {p} : m_fileLock[q].os \in kinds

Push(t, l) == holds' = [holds EXCEPT ![t] = Append(@, l)]

Pop(t) == holds' = [holds EXCEPT ![t] = SubSeq(@, 1, Len(@) - 1)]

\* The other threads of the process of t hold no reference to the instance:
\* what the caller of close() and onExit() has to ensure
OthersLetGo(t) ==
  \A u \in ThreadsOf(ProcOf(t)) \ {t} :
    /\ pc[u].op \in {"idle", "mmkvWithID"}
    /\ \A i \in 1..Len(holds[u]) : holds[u][i] = "g"

\* Thread t calls operation op
Call(t, op) ==
  /\ pc[t] = Idle
  /\ op \in InstanceOps =>
       /\ g_instanceDic[ProcOf(t)] = "kv"
       /\ \A u \in ThreadsOf(ProcOf(t)) : pc[u].op \notin {"close", "onExit"}
  /\ op = "unlock" => holds[t] # <<>>
  /\ op \in {"lock", "try_lock"} => Len(holds[t]) < MaxUserLocks
  /\ op \in {"close", "onExit"} => holds[t] = <<>> /\ OthersLetGo(t)
  /\ op \in {"mmkvWithID", "onExit"} => g_instanceDic[ProcOf(t)] # "null"
  /\ pc' = [pc EXCEPT ![t] = [op |-> op, i |-> 1]]
  /\ UNCHANGED <<holds, g_instanceLock, m_lock, m_fileLock, g_instanceDic>>
  /\ UNCHANGED engineVars

\* SCOPED_LOCK(g_instanceLock)
LockInstanceLock(t) ==
  /\ At(t) = Lock("g")
  /\ CanLock(g_instanceLock[ProcOf(t)], t)
  /\ g_instanceLock' = [g_instanceLock EXCEPT ![ProcOf(t)] = Locked(@, t)]
  /\ Push(t, "g")
  /\ Next1(t)
  /\ UNCHANGED <<m_lock, m_fileLock, g_instanceDic>>
  /\ UNCHANGED engineVars

\* SCOPED_LOCK(m_lock), m_lock->lock()
LockMLock(t) ==
  /\ At(t) = Lock("m")
  /\ CanLock(m_lock[ProcOf(t)], t)
  /\ m_lock' = [m_lock EXCEPT ![ProcOf(t)] = Locked(@, t)]
  /\ Push(t, "m")
  /\ Next1(t)
  /\ UNCHANGED <<g_instanceLock, m_fileLock, g_instanceDic>>
  /\ UNCHANGED engineVars

\* The end of a SCOPED_LOCK scope of one of the two mutexes
UnlockThreadLock(t) ==
  /\ At(t).do = "unlock" /\ At(t).on \in {"g", "m"}
  /\ IF At(t).on = "g"
     THEN /\ g_instanceLock' =
               [g_instanceLock EXCEPT ![ProcOf(t)] = Unlocked(@)]
          /\ UNCHANGED m_lock
     ELSE /\ m_lock' = [m_lock EXCEPT ![ProcOf(t)] = Unlocked(@)]
          /\ UNCHANGED g_instanceLock
  /\ Pop(t)
  /\ Next1(t)
  /\ UNCHANGED <<m_fileLock, g_instanceDic>>
  /\ UNCHANGED engineVars

\* FileLock::lock(SharedLockType): at once when the process holds a lock
\* already, else when no other process holds the exclusive lock
LockShared(t) ==
  LET f == m_fileLock[ProcOf(t)] IN
  /\ At(t) = Lock("shared")
  /\ f.shared > 0 \/ f.exclusive > 0 \/ ~OthersHold(ProcOf(t), {"exclusive"})
  /\ m_fileLock' =
       [m_fileLock EXCEPT ![ProcOf(t)] =
          IF f.shared > 0 \/ f.exclusive > 0 THEN [f EXCEPT !.shared = @ + 1]
          ELSE [f EXCEPT !.shared = 1, !.os = "shared"]]
  /\ Push(t, "shared")
  /\ Next1(t)
  /\ UNCHANGED <<g_instanceLock, m_lock, g_instanceDic>>
  /\ UNCHANGED engineVars

\* FileLock::lock(ExclusiveLockType) when the process holds the shared lock
\* and not the exclusive one: the upgrade begins by releasing the shared
\* lock, and the thread goes on to acquire the exclusive lock
UpgradeRelease(t) ==
  LET f == m_fileLock[ProcOf(t)] IN
  /\ At(t) = Lock("exclusive")
  /\ f.exclusive = 0 /\ f.os = "shared"
  /\ m_fileLock' = [m_fileLock EXCEPT ![ProcOf(t)].os = "none"]
  /\ UNCHANGED <<pc, holds, g_instanceLock, m_lock, g_instanceDic>>
  /\ UNCHANGED engineVars

\* FileLock::lock(ExclusiveLockType): at once when the process holds the
\* exclusive lock already, else when no other process holds a lock
LockExclusive(t) ==
  LET f == m_fileLock[ProcOf(t)] IN
  /\ At(t) = Lock("exclusive")
  /\ \/ f.exclusive > 0
     \/ f.os = "none" /\ ~OthersHold(ProcOf(t), {"shared", "exclusive"})
  /\ m_fileLock' =
       [m_fileLock EXCEPT ![ProcOf(t)] =
          [f EXCEPT !.exclusive = @ + 1, !.os = "exclusive"]]
  /\ Push(t, "exclusive")
  /\ Next1(t)
  /\ UNCHANGED <<g_instanceLock, m_lock, g_instanceDic>>
  /\ UNCHANGED engineVars

\* FileLock::unlock(type): the counter goes down; the lock on the file is
\* kept while a counter of the process is positive, as a shared lock when
\* only the shared counter is
UnlockFileLock(t) ==
  LET f == m_fileLock[ProcOf(t)]
      g == IF At(t).on = "shared" THEN [f EXCEPT !.shared = @ - 1]
           ELSE [f EXCEPT !.exclusive = @ - 1]
  IN
  /\ At(t).do = "unlock" /\ At(t).on \in {"shared", "exclusive"}
  /\ m_fileLock' =
       [m_fileLock EXCEPT ![ProcOf(t)] =
          [g EXCEPT !.os = IF g.exclusive > 0 THEN f.os
                           ELSE IF g.shared = 0 THEN "none"
                           ELSE IF At(t).on = "exclusive" THEN "shared"
                           ELSE f.os]]
  /\ Pop(t)
  /\ Next1(t)
  /\ UNCHANGED <<g_instanceLock, m_lock, g_instanceDic>>
  /\ UNCHANGED engineVars

\* bool MMKV::try_lock(): FileLock::try_lock(ExclusiveLockType) takes the
\* lock when that needs no waiting, and fails otherwise
TryLock(t) ==
  LET f == m_fileLock[ProcOf(t)]
      ok == f.exclusive > 0 \/ ~OthersHold(ProcOf(t), {"shared", "exclusive"})
  IN
  /\ At(t) = Body("try")
  /\ IF ok
     THEN /\ m_fileLock' =
               [m_fileLock EXCEPT ![ProcOf(t)] =
                  [f EXCEPT !.exclusive = @ + 1, !.os = "exclusive"]]
          /\ Push(t, "exclusive")
     ELSE UNCHANGED <<m_fileLock, holds>>
  /\ Next1(t)
  /\ UNCHANGED <<g_instanceLock, m_lock, g_instanceDic>>
  /\ UNCHANGED engineVars

\* The work of an operation under its locks: the append of a write, the
\* lookup of a read, clearMemoryCache, loadFromFile, the msync of a file
Work(t) ==
  /\ At(t).do = "body"
  /\ At(t).on \in {"write", "read", "cache", "load", "msyncData", "msyncMeta"}
  /\ Next1(t)
  /\ UNCHANGED <<holds, g_instanceLock, m_lock, m_fileLock, g_instanceDic>>
  /\ UNCHANGED engineVars

\* sync: the test of m_needLoadFromFile and isFileValid() where the lock
\* model does not follow the instance: either outcome
TestEither(t) ==
  /\ At(t).do = "test"
  /\ \/ pc' = [pc EXCEPT ![t].i = At(t).to]
     \/ Next1(t)
  /\ UNCHANGED <<holds, g_instanceLock, m_lock, m_fileLock, g_instanceDic>>
  /\ UNCHANGED engineVars

\* mmkvWithID: the test of g_instanceDic->find(mmapKey); onExit: the loop
\* over g_instanceDic.  Once onExit has deleted g_instanceDic, find()
\* dereferences a null pointer: the thread gets no further.
Jump(t) ==
  /\ At(t).do = "jump"
  /\ g_instanceDic[ProcOf(t)] # "null"
  /\ IF (At(t).on = "found") = (g_instanceDic[ProcOf(t)] = "kv")
     THEN pc' = [pc EXCEPT ![t].i = At(t).to]
     ELSE Next1(t)
  /\ UNCHANGED <<holds, g_instanceLock, m_lock, m_fileLock, g_instanceDic>>
  /\ UNCHANGED engineVars

\* mmkvWithID: (*g_instanceDic)[mmapKey] = kv; close: g_instanceDic->erase;
\* onExit: delete g_instanceDic
SetRegistry(t) ==
  /\ At(t).do = "body" /\ At(t).on \in {"register", "erase", "exit"}
  /\ g_instanceDic' =
       [g_instanceDic EXCEPT ![ProcOf(t)] =
          CASE At(t).on = "register" -> "kv"
            [] At(t).on = "erase" -> "empty"
            [] At(t).on = "exit" -> "null"]
  /\ Next1(t)
  /\ UNCHANGED <<holds, g_instanceLock, m_lock, m_fileLock>>
  /\ UNCHANGED engineVars

\* delete this / delete kv: m_lock and m_fileLock go with the instance, and
\* closing the meta file drops the lock of the process on it
Delete(t) ==
  /\ At(t) = Body("delete")
  /\ m_lock' = [m_lock EXCEPT ![ProcOf(t)] = FreeLock]
  /\ m_fileLock' = [m_fileLock EXCEPT ![ProcOf(t)] = NewFileLock]
  /\ holds' = [holds EXCEPT ![t] = SelectSeq(@, LAMBDA l : l = "g")]
  /\ g_instanceDic' = [g_instanceDic EXCEPT ![ProcOf(t)] = "empty"]
  /\ Next1(t)
  /\ UNCHANGED g_instanceLock
  /\ UNCHANGED engineVars

\* The operations a thread calls: every one in the main process; in the
\* peer process those that open the store, write it, read it and lock it
OpsOf(t) ==
  IF ProcOf(t) = Main
  THEN InstanceOps \cup {"mmkvWithID", "onExit"}
  ELSE {"mmkvWithID", "set", "getInt32", "lock", "unlock"}

InitLock ==
  /\ dataFile = [size |-> 0, actualSize |-> 0, bytes |-> <<>>]
  /\ appKey = <<>>
  /\ metaFile = ZeroMeta
  /\ inst = [p \in Procs |-> NoInst]
  /\ g_errorHandler = "null"
  /\ model = [k \in Keys |-> Absent]
  /\ LockInit

NextLock ==
  \E t \in Threads :
    \/ \E op \in OpsOf(t) : Call(t, op)
    \/ LockInstanceLock(t)
    \/ LockMLock(t)
    \/ UnlockThreadLock(t)
    \/ LockShared(t)
    \/ UpgradeRelease(t)
    \/ LockExclusive(t)
    \/ UnlockFileLock(t)
    \/ TryLock(t)
    \/ Work(t)
    \/ TestEither(t)
    \/ Jump(t)
    \/ SetRegistry(t)
    \/ Delete(t)

SpecLock == InitLock /\ [][NextLock]_vars

\* ------------------------------------------------------------------------
\* What the locks guarantee
\* ------------------------------------------------------------------------

\* Thread t has taken lock l and not released it
HoldsLock(t, l) == \E i \in 1..Len(holds[t]) : holds[t][i] = l

\* Thread t is inside the mutating section of a write
Mutating(t) == At(t) = Body("write")

\* At most one process is inside a mutating section
OneWriterProcess ==
  Cardinality({p \in Procs : \E t \in ThreadsOf(p) : Mutating(t)}) <= 1

\* No thread is inside a shared section while a thread of another process
\* holds the exclusive lock
NoSharedWithExclusive ==
  \A t \in Threads, u \in Threads :
    ProcOf(t) # ProcOf(u) =>
      ~(HoldsLock(t, "shared") /\ HoldsLock(u, "exclusive"))

\* At most one thread of a process is in a body entered through m_lock
OneThreadUnderMLock ==
  \A p \in Procs :
    Cardinality({t \in ThreadsOf(p) :
                   At(t).do = "body" /\ HoldsLock(t, "m")}) <= 1

\* C6: writer exclusion.  In every reachable state at most one process is
\* inside a mutating section, no process has a thread in a shared section
\* while another process holds the exclusive lock, and at most one thread
\* of a process runs a body guarded by m_lock.
C6_WriterExclusion ==
  /\ OneWriterProcess
  /\ NoSharedWithExclusive
  /\ OneThreadUnderMLock

\* The place of a lock in the hierarchy
Rank(l) == CASE l = "g" -> 1 [] l = "m" -> 2 [] OTHER -> 3

\* Thread t is about to take a lock it does not own while it holds one
\* that comes later in the hierarchy
OutOfOrder(t) ==
  /\ At(t).do = "lock"
  /\ At(t).on = "g" => g_instanceLock[ProcOf(t)].owner # t
  /\ At(t).on = "m" => m_lock[ProcOf(t)].owner # t
  /\ \E i \in 1..Len(holds[t]) : Rank(holds[t][i]) > Rank(At(t).on)

\* Thread t cannot take the lock it is at
Blocked(t) ==
  /\ At(t).do = "lock"
  /\ At(t).on = "g" => ~CanLock(g_instanceLock[ProcOf(t)], t)
  /\ At(t).on = "m" => ~CanLock(m_lock[ProcOf(t)], t)
  /\ At(t).on = "shared" => ~ENABLED LockShared(t)
  /\ At(t).on = "exclusive" =>
       ~ENABLED LockExclusive(t) /\ ~ENABLED UpgradeRelease(t)

\* The threads whose release thread t waits for
WaitsFor(t) ==
  CASE At(t).on = "g" -> {g_instanceLock[ProcOf(t)].owner}
    [] At(t).on = "m" -> {m_lock[ProcOf(t)].owner}
    [] OTHER -> {u \in Threads :
                   /\ ProcOf(u) # ProcOf(t)
                   /\ HoldsLock(u, "shared") \/ HoldsLock(u, "exclusive")}

\* No set of threads in which every thread is blocked on a lock that a
\* thread of the set holds
NoDeadlock ==
  \A S \in SUBSET Threads :
    S # {} => \E t \in S : ~Blocked(t) \/ WaitsFor(t) \cap S = {}

\* C7: lock hierarchy.  No thread requests g_instanceLock while it holds
\* m_lock or a process lock, nor m_lock while it holds a process lock, in
\* mmkvWithID, close, onExit and in an operation called after the public
\* lock(); and no interleaving reaches a deadlock.
C7_LockHierarchy ==
  /\ \A t \in Threads : ~OutOfOrder(t)
  /\ NoDeadlock

\* Thread t, in a public operation on the instance, is at a statement that
\* reads or writes the instance or its FileLock
Touches(t) ==
  /\ pc[t].op \in InstanceOps
  /\ \/ At(t).do = "body"
     \/ At(t).do \in {"lock", "unlock"} /\ At(t).on \in {"shared", "exclusive"}

\* C8: every public operation on an instance holds m_lock when it reads or
\* writes instance state or the state of the inter-process lock (lock(),
\* unlock() and try_lock() included), so no two threads of a process are
\* at such statements together.
C8_PublicOpsHoldMLock ==
  /\ \A t \in Threads : Touches(t) => m_lock[ProcOf(t)].owner = t
  /\ \A p \in Procs :
       Cardinality({t \in ThreadsOf(p) : Touches(t)}) <= 1

\* ------------------------------------------------------------------------
\* Key change: one process opens the store with the key of the application,
\* writes, reads, and calls checkReSetCryptKey
\* ------------------------------------------------------------------------

\* A second key, and a key of AES_KEY_LEN + 1 bytes without a zero byte
CryptKeyB == <<100, 101>>

LongKey == [i \in 1..(AES_KEY_LEN + 1) |-> 64 + i]

CryptKeys == {<<>>, CryptKeyA, CryptKeyB, LongKey}

CheckReSetCryptKey(p, newKey) ==
  /\ Running(p)
  /\ Commit(p, checkReSetCryptKey(WorldOf(p), newKey))
  /\ UNCHANGED model

InitKey ==
  /\ dataFile = [size |-> 0, actualSize |-> 0, bytes |-> <<>>]
  /\ appKey \in {<<>>, CryptKeyA, LongKey}
  /\ metaFile \in {[ZeroMeta EXCEPT !.version = v] :
                     v \in IF appKey = <<>> THEN {MMKVVersionDefault}
                           ELSE {MMKVVersionDefault, MMKVVersionRandomIV}}
  /\ inst = [p \in Procs |-> NoInst]
  /\ g_errorHandler = "null"
  /\ model = [k \in Keys |-> Absent]
  /\ LockInit

NextKey ==
  \E p \in {Main} :
    \/ Open(p)
    \/ \E k \in Keys, v \in Values : \E iv \in NewIVs(p) :
         SetInt32(p, k, v, iv)
    \/ \E k \in Keys : GetInt32(p, k)
    \/ \E newKey \in CryptKeys : CheckReSetCryptKey(p, newKey)

SpecKey == InitKey /\ [][NextKey]_vars

\* The instance of process p is loaded
Loaded(p) == Running(p) /\ ~inst[p].needLoad

\* The instance s works under the key k: plain for the empty key
KeyIs(s, k) ==
  IF Len(k) = 0 THEN ~s.crypter.on
  ELSE s.crypter.on /\ s.crypter.key = PadKey(k)

\* C9: key change forces re-encryption.  On a loaded instance,
\* checkReSetCryptKey(newKey) with a key other than the current one (plain
\* to crypt, crypt to plain, crypt to another key) leaves the instance under
\* the new key, the payload on disk readable under the new key, a greater
\* meta.sequence, and the same get and containsKey results for every key.
C9_KeyChangeReencrypts ==
  \A newKey \in CryptKeys :
    (Loaded(Main) /\ ~KeyIs(inst[Main], newKey)) =>
      LET W == WorldOf(Main)
          W2 == checkReSetCryptKey(W, newKey)
      IN /\ ~W2.s.crashed
         /\ KeyIs(W2.s, newKey)
         /\ W2.m.sequence > W.m.sequence
         /\ \A k \in Keys :
              /\ GetOf(W2, k) = GetOf(W, k)
              /\ GetOf(Construct(W2.d, W2.m, newKey), k) = GetOf(W, k)

\* C10: checkReSetCryptKey with the same key is a no-op.  On an instance
\* that works under the key K it was opened with (the empty key on a plain
\* store, a key longer than AES_KEY_LEN included), checkReSetCryptKey(K)
\* leaves the crypter with its IV and position, the index, the data file
\* and the meta file as they were.
C10_SameKeyNoOp ==
  (Running(Main) /\ KeyIs(inst[Main], appKey)) =>
    checkReSetCryptKey(WorldOf(Main), appKey) = WorldOf(Main)

\* ------------------------------------------------------------------------
\* The records of the payload
\* ------------------------------------------------------------------------

\* The cipher state at the first payload byte: the vector of the meta file
\* from MMKVVersionRandomIV on, the IV taken from the key before
StartSt(W) ==
  IF W.m.version >= MMKVVersionRandomIV THEN W.m.vector % 64
  ELSE DefaultIV(W.s.crypter.key)

\* payload[0..actualSize) in plain text
PlainPayload(W) ==
  LET raw == Payload(W.d, W.d.actualSize)
  IN IF W.s.crypter.on THEN Decrypt(W.s.crypter, StartSt(W), raw).out
     ELSE raw

\* The records [key, len] of a plain payload in file order, up to the first
\* one that does not parse
RECURSIVE RecordsFrom(_, _)
RecordsFrom(plain, pos) ==
  IF pos > Len(plain) THEN <<>>
  ELSE
    LET kl == ReadVarint(plain, pos) IN
    IF ~kl.ok \/ kl.next + kl.val - 1 > Len(plain) THEN <<>>
    ELSE
      LET vl == ReadVarint(plain, kl.next + kl.val) IN
      IF ~vl.ok \/ vl.next + vl.val - 1 > Len(plain) THEN <<>>
      ELSE <<[key |-> Slice(plain, kl.next, kl.val), len |-> vl.val]>>
             \o RecordsFrom(plain, vl.next + vl.val)

RecordsOf(W) == RecordsFrom(PlainPayload(W), 1)

\* The keys of the index of the instance of W
IndexKeys(W) == {h.key : h \in CurrentDic(W.s)}

\* The payload of W holds no record of a key of the set named
NoRecordOf(W, named) ==
  \A i \in 1..Len(RecordsOf(W)) : RecordsOf(W)[i].key \notin named

\* What the claim asks of removeValuesForKeys(arrKeys) that took the world
\* of process p, after its checkLoadData W1, to W2: nothing for the empty
\* list, the single-key path for one key, and for two or more keys, when
\* must holds, the keys gone from the index, the flag reset and the full
\* write-back run: a greater sequence and no record of a listed key
BatchRemoved(W, W1, W2, arrKeys, iv, must) ==
  /\ Len(arrKeys) = 0 => W2 = W
  /\ Len(arrKeys) = 1 =>
       /\ W2 = removeValueForKey(W, arrKeys[1], iv)
       /\ arrKeys[1] \notin IndexKeys(W2)
  /\ (Len(arrKeys) >= 2 /\ must) =>
       /\ IndexKeys(W2) \cap Range(arrKeys) = {}
       /\ W2.s.hasFullWriteback
       /\ W2.m.sequence = W1.m.sequence + 1
       /\ NoRecordOf(W2, Range(arrKeys))
  /\ (Len(arrKeys) >= 2 /\ ~must) => W2 = W1

\* C11 as stated: batch remove.  For every list of two or more keys,
\* whether or not one of them is in the index, removeValuesForKeys erases
\* them, runs fullWriteback, meta.sequence increases and the payload holds
\* no record of a listed key; the empty list does nothing and a list of
\* one key takes the single-key path.
C11_BatchRemoveAlways ==
  Running(Main) =>
    \A arrKeys \in KeyLists : \A iv \in NewIVs(Main) :
      LET W == WorldOf(Main)
          W1 == checkLoadData(W)
          W2 == removeValuesForKeys(W, arrKeys, iv)
      IN Bounded(W2) => BatchRemoved(W, W1, W2, arrKeys, iv, TRUE)

\* C11: batch remove.  For every list of two or more keys of which at
\* least one is in the index, removeValuesForKeys erases the listed keys,
\* runs fullWriteback, meta.sequence increases by one and the payload holds
\* no record of a listed key; when none is in the index it does no more
\* than checkLoadData; the empty list does nothing and a list of one key
\* takes the single-key path.
C11_BatchRemove ==
  Running(Main) =>
    \A arrKeys \in KeyLists : \A iv \in NewIVs(Main) :
      LET W == WorldOf(Main)
          W1 == checkLoadData(W)
          W2 == removeValuesForKeys(W, arrKeys, iv)
      IN Bounded(W2) =>
           BatchRemoved(W, W1, W2, arrKeys, iv,
                        IndexKeys(W1) \cap Range(arrKeys) # {})

\* Key <<1>> is in the index, the payload holds a tombstone of key <<2>>,
\* and removeValuesForKeys of the list <<1>>, <<1>> empties the payload and
\* increases the sequence.
C11_Witness ==
  /\ Running(Main) /\ ~inst[Main].needLoad
  /\ IndexKeys(WorldOf(Main)) = {<<1>>}
  /\ \E i \in 1..Len(RecordsOf(WorldOf(Main))) :
       RecordsOf(WorldOf(Main))[i] = [key |-> <<2>>, len |-> 0]
  /\ \E iv \in NewIVs(Main) :
       LET W2 == removeValuesForKeys(WorldOf(Main), <<<<1>>, <<1>>>>, iv)
       IN /\ W2.d.actualSize = 0
          /\ W2.m.sequence = metaFile.sequence + 1

\* ------------------------------------------------------------------------
\* getValueSize and writeValueToBuffer
\* ------------------------------------------------------------------------

\* CodedInputData::readRawVarint32 / readInt32 at the start of bytes:
\* [ok, val].  The first five bytes give the 32 bits of the result, read as
\* an int32 (the fifth byte gives bits 28..31, so the result is negative
\* when its bit 3 is set); up to five more continuation bytes are
\* discarded; a run of continuation bytes that leaves the buffer or is
\* longer than ten bytes is the decode exception.
readRawVarint32(bytes) ==
  LET ends == {i \in 1..Min(Len(bytes), 10) : bytes[i] < 128} IN
  IF ends = {} THEN [ok |-> FALSE, val |-> 0]
  ELSE
    LET e == CHOOSE i \in ends : \A j \in ends : i <= j
        low == ReadVarintFrom([i \in 1..Min(e, 4) |->
                                 IF i = Min(e, 4) THEN bytes[i] % 128
                                 ELSE (bytes[i] % 128) + 128],
                              1, 0, 1, 0).val
        top == IF e < 5 THEN 0 ELSE bytes[5] % 16
    IN [ok |-> TRUE,
        val |-> (IF top >= 8 THEN top - 16 ELSE top) * (2 ^ 28) + low]

\* The end of getValueSize on the buffer g.data of getDataForKey: the
\* length the value's prefix announces when it spans the buffer, the length
\* of the buffer otherwise
sizeOfValue(g, actualSize) ==
  LET n == readRawVarint32(g.data)
  IN [W |-> g.W,
      ret |-> IF /\ actualSize /\ n.ok /\ n.val >= 0
                 /\ pbRawVarint32Size(n.val) + n.val = Len(g.data)
              THEN n.val ELSE Len(g.data)]

\* size_t MMKV::getValueSize(MMKVKey_t key, bool actualSize): [W, ret]
getValueSize(W, key, actualSize) ==
  IF isKeyEmpty(key) THEN [W |-> W, ret |-> 0]
  ELSE sizeOfValue(getDataForKey(W, key), actualSize)

\* memcpy(ptr, src, n): the first n bytes of the buffer are overwritten
memcpy(ptr, src) == src \o SubSeq(ptr, Len(src) + 1, Len(ptr))

\* The end of writeValueToBuffer on the buffer g.data of getDataForKey
copyValue(g, ptr, size) ==
  LET n == readRawVarint32(g.data)
      length == n.val
      offset == pbRawVarint32Size(length)
  IN IF ~n.ok \/ length < 0 THEN [W |-> g.W, ret |-> -1, ptr |-> ptr]
     ELSE IF offset + length = Len(g.data)
          THEN IF length <= size
               THEN [W |-> g.W, ret |-> length,
                     ptr |-> memcpy(ptr, Slice(g.data, offset + 1, length))]
               ELSE [W |-> g.W, ret |-> -1, ptr |-> ptr]
          ELSE IF Len(g.data) <= size
               THEN [W |-> g.W, ret |-> Len(g.data),
                     ptr |-> memcpy(ptr, g.data)]
               ELSE [W |-> g.W, ret |-> -1, ptr |-> ptr]

\* int32_t MMKV::writeValueToBuffer(MMKVKey_t key, void *ptr, int32_t size):
\* [W, ret, ptr]
writeValueToBuffer(W, key, ptr, size) ==
  IF isKeyEmpty(key) \/ size < 0 THEN [W |-> W, ret |-> -1, ptr |-> ptr]
  ELSE copyValue(getDataForKey(W, key), ptr, size)

\* The caller's buffer before the call
Buffer == <<255, 255>>

\* C12: empty-key handling.  With an empty key every set (set(const char *)
\* with a null and with a non-null value included) returns false, every get
\* the caller's default, getValueSize 0, writeValueToBuffer -1, and
\* removeValueForKey returns; index, actualSize, CRC digest, data file and
\* meta file stay as they were.  writeValueToBuffer with size < 0 returns
\* -1 for every key and leaves the buffer and the state alone.
C12_EmptyKeyFails ==
  Running(Main) =>
    LET W == WorldOf(Main) IN
    /\ \A v \in Values, iv \in NewIVs(Main) :
         set_int32(W, v, EmptyKey, iv) = [W |-> W, ret |-> FALSE]
    /\ \A isNull \in BOOLEAN, str \in CStrings, iv \in NewIVs(Main) :
         set_cstr(W, isNull, str, EmptyKey, iv) = [W |-> W, ret |-> FALSE]
    /\ getInt32(W, EmptyKey, DefaultValue) = [W |-> W, ret |-> DefaultValue]
    /\ getString(W, EmptyKey) = [W |-> W, ret |-> FALSE, result |-> <<>>]
    /\ \A a \in BOOLEAN : getValueSize(W, EmptyKey, a) = [W |-> W, ret |-> 0]
    /\ writeValueToBuffer(W, EmptyKey, Buffer, Len(Buffer))
         = [W |-> W, ret |-> -1, ptr |-> Buffer]
    /\ \A iv \in NewIVs(Main) : removeValueForKey(W, EmptyKey, iv) = W
    /\ \A k \in AllKeys :
         writeValueToBuffer(W, k, Buffer, -1)
           = [W |-> W, ret |-> -1, ptr |-> Buffer]

\* ------------------------------------------------------------------------
\* Load errors: one process works on a store whose data file is damaged
\* from outside while no index is held over it (the instance is closed or
\* its cache is dropped), with or without an error handler registered
\* ------------------------------------------------------------------------

\* What an ErrorHandler can return (MMKVRecoverStrategic)
Strategies == {"OnErrorDiscard", "OnErrorRecover"}

\* void MMKV::registerErrorHandler(ErrorHandler handler)
RegisterErrorHandler(handler) ==
  /\ g_errorHandler' = handler
  /\ UNCHANGED <<dataFile, metaFile, inst, appKey, model>>
  /\ UNCHANGED lockVars

\* void MMKV::unRegisterErrorHandler()
UnRegisterErrorHandler ==
  /\ g_errorHandler' = "null"
  /\ UNCHANGED <<dataFile, metaFile, inst, appKey, model>>
  /\ UNCHANGED lockVars

\* No process holds an index over the data file
Unobserved == \A p \in Procs : ~inst[p].open \/ inst[p].needLoad

\* The meta file agrees with the data file
FilesAgree ==
  /\ dataFile.actualSize = metaFile.actualSize
  /\ dataFile.actualSize + Fixed32Size <= dataFile.size
  /\ CRC32(0, Payload(dataFile, dataFile.actualSize)) = metaFile.crcDigest

FlipBit(b) == IF b % 2 = 0 THEN b + 1 ELSE b - 1

\* One bit of the first payload byte (file offset 4) changes on disk
FlipByte ==
  /\ Unobserved /\ FilesAgree
  /\ dataFile.actualSize > 0
  /\ dataFile' = [dataFile EXCEPT !.bytes[1] = FlipBit(@)]
  /\ UNCHANGED <<metaFile, inst, g_errorHandler, appKey, model>>
  /\ UNCHANGED lockVars

\* The header of the data file comes to claim more bytes than the file
\* holds; the file is zero behind the payload
HeaderTooBig ==
  /\ Unobserved /\ FilesAgree
  /\ dataFile' =
       [dataFile EXCEPT
          !.actualSize = dataFile.size,
          !.bytes = [i \in 1..(dataFile.size - Fixed32Size) |->
                       IF i <= Len(dataFile.bytes) THEN dataFile.bytes[i]
                       ELSE 0]]
  /\ UNCHANGED <<metaFile, inst, g_errorHandler, appKey, model>>
  /\ UNCHANGED lockVars

InitErr ==
  /\ dataFile = [size |-> 0, actualSize |-> 0, bytes |-> <<>>]
  /\ appKey \in {<<>>, CryptKeyA}
  /\ metaFile = ZeroMeta
  /\ inst = [p \in Procs |-> NoInst]
  /\ g_errorHandler = "null"
  /\ model = [k \in Keys |-> Absent]
  /\ LockInit

NextErr ==
  \/ \E handler \in Handlers : RegisterErrorHandler(handler)
  \/ UnRegisterErrorHandler
  \/ FlipByte
  \/ HeaderTooBig
  \/ \E p \in {Main} :
       \/ Open(p)
       \/ Close(p)
       \/ \E k \in Keys, v \in Values : \E iv \in NewIVs(p) :
            SetInt32(p, k, v, iv)
       \/ \E k \in Keys : \E iv \in NewIVs(p) : RemoveValueForKey(p, k, iv)
       \/ \E ks \in KeyPairs : \E iv \in NewIVs(p) :
            RemoveValuesForKeys(p, ks, iv)
       \/ \E iv \in NewIVs(p) : FullWriteback(p, iv)
       \/ \E k \in Keys : GetInt32(p, k)
       \/ ClearMemoryCache(p)

SpecErr == InitErr /\ [][NextErr]_vars

\* 4 + actualSize <= fileSize on the instance of W
SizeOk(W) == Fixed32Size + W.s.actualSize <= W.s.fileSize

\* The header of the data file claims more than the file holds
HeaderBeyondFile ==
  dataFile.size > 0 /\ dataFile.actualSize + Fixed32Size > dataFile.size

\* C13: size invariant.  Whenever no operation is in progress on a loaded
\* instance, and whenever actualSize() and totalSize() have reloaded a
\* dropped cache, 4 + actualSize <= fileSize, after every sequence of set,
\* remove, batch remove, compaction, file growth, clearMemoryCache and
\* reload; a load that finds actualSize + 4 > fileSize applies the
\* file-length-error policy (empty under Discard; otherwise what parses of
\* the bytes the file holds, written back) and does not keep that
\* actualSize.
C13_SizeInvariant ==
  /\ Loaded(Main) => SizeOk(WorldOf(Main))
  /\ Running(Main) => SizeOk(checkLoadData(WorldOf(Main)))
  /\ (HeaderBeyondFile /\ ~inst[Main].open /\ ~inst[Main].crashed) =>
       LET W2 == Construct(dataFile, metaFile, appKey)
       IN /\ SizeOk(W2)
          /\ W2.s.actualSize # dataFile.actualSize
          /\ W2.d.actualSize = W2.s.actualSize
          /\ onMMKVFileLengthError = "OnErrorDiscard" =>
               W2.s.actualSize = 0 /\ IndexKeys(W2) = {}
          /\ onMMKVFileLengthError # "OnErrorDiscard" =>
               /\ W2.s.hasFullWriteback
               /\ W2.m.sequence = metaFile.sequence + 1

\* A store that has grown to two pages is closed, its header claims more
\* than the file holds, and it is opened with a handler that recovers: the
\* instance ends with the keys that parse and an actualSize within the
\* file.
C13_Witness ==
  /\ HeaderBeyondFile /\ ~inst[Main].open /\ ~inst[Main].crashed
  /\ g_errorHandler = "OnErrorRecover"
  /\ dataFile.size > PageSize
  /\ IndexKeys(Construct(dataFile, metaFile, appKey)) # {}
  /\ Construct(dataFile, metaFile, appKey).s.actualSize
       < dataFile.size - Fixed32Size

\* The digests of W agree with a full recomputation over the payload, and
\* the meta file with the header of the data file
CrcOk(W) ==
  LET crc == CRC32(0, Payload(W.d, W.d.actualSize))
  IN /\ W.m.crcDigest = crc
     /\ W.s.crcDigest = crc
     /\ W.s.meta.crcDigest = crc
     /\ W.m.actualSize = W.d.actualSize
     /\ W.s.actualSize = W.d.actualSize

\* C14: CRC invariant.  Whenever an operation has returned on a loaded
\* instance (an append through updateCRCDigest, a full write-back or a
\* recovery through recaculateCRCDigestWithIV), meta.crcDigest and
\* m_crcDigest equal CRC32 of payload[0..actualSize] and meta.actualSize
\* equals the actualSize of the data file: also for the first append after
\* a load, after clearMemoryCache and reload, and after a load that kept
\* the data despite a CRC mismatch.
C14_CrcInvariant ==
  /\ Loaded(Main) => CrcOk(WorldOf(Main))
  /\ Running(Main) =>
       \A k \in Keys, v \in Values, iv \in NewIVs(Main) :
         LET r == set_int32(WorldOf(Main), v, k, iv)
         IN (r.ret /\ Bounded(r.W)) => CrcOk(r.W)

\* The cache of the instance is dropped, the first payload byte has changed
\* on disk, the handler keeps the data, and a set reloads, recovers (the
\* sequence goes up) and appends behind the payload it kept.
C14_Witness ==
  /\ Running(Main) /\ inst[Main].needLoad
  /\ dataFile.actualSize > 0 /\ ~FilesAgree
  /\ dataFile.actualSize = metaFile.actualSize
  /\ g_errorHandler = "OnErrorRecover"
  /\ \E k \in Keys, v \in Values, iv \in NewIVs(Main) :
       LET r == set_int32(WorldOf(Main), v, k, iv)
       IN /\ r.ret /\ Bounded(r.W)
          /\ r.W.m.sequence = metaFile.sequence + 1
          /\ r.W.d.actualSize > dataFile.actualSize

\* ------------------------------------------------------------------------
\* The registry: g_instanceDic of one process as the map from mmapKey to
\* the instance, several stores opened and closed
\* ------------------------------------------------------------------------

\* At most MaxInstances instances are alive at a time
MaxInstances == 2

\* The addresses operator new can return
Pointers == 1..MaxInstances

nullptr == 0

\* MMKV_PATH_SLASH, and the character that starts a digest
Slash == 47

DigestMark == 64

\* md5(value): the digest is a string again and different values have
\* different digests
md5(value) == <<DigestMark>> \o value

\* A null MMKVPath_t *relativePath
NoPath == <<-1>>

\* g_rootDir, as initializeMMKV(rootDir) has set it
g_rootDir == <<2>>

OtherDir == <<3>>

RelativePaths == {NoPath, g_rootDir, OtherDir}

\* The ids callers choose: the empty one, a plain one, and one that reads
\* like the digest of the plain one under OtherDir
MmapIDs == {<<>>, <<1>>, md5(OtherDir \o <<Slash>> \o <<1>>)}

MMKV_SINGLE_PROCESS == 1

MMKV_MULTI_PROCESS == 2

Modes == {MMKV_SINGLE_PROCESS, MMKV_MULTI_PROCESS}

\* new unordered_map<string, MMKV *>
EmptyDic == [k \in {} |-> nullptr]

\* string mmapedKVKey(const string &mmapID, MMKVPath_t *relativePath)
mmapedKVKey(mmapID, relativePath) ==
  IF relativePath # NoPath /\ g_rootDir # relativePath
  THEN md5(relativePath \o <<Slash>> \o mmapID)
  ELSE mmapID

\* The directory a relativePath argument names
DirOf(relativePath) ==
  IF relativePath = NoPath THEN g_rootDir ELSE relativePath

\* new MMKV(mmapID, mode, aesKey, relativePath) at address ptr, with
\* kv->m_mmapKey = mmapKey
NewMMKV(ptr, mmapID, mode, aesKey, relativePath, mmapKey) ==
  [ptr |-> ptr, m_mmapID |-> mmapID, m_dir |-> DirOf(relativePath),
   m_isInterProcess |-> (mode = MMKV_MULTI_PROCESS),
   m_crypter |-> IF Len(aesKey) > 0 THEN NewAESCrypt(aesKey)
                 ELSE NoCrypter,
   m_mmapKey |-> mmapKey]

\* mmkvWithID without the registry lookup: every call constructs
mmkvWithID_AlwaysNew(dic, mmapID, mode, aesKey, relativePath, ptr) ==
  IF Len(mmapID) = 0 THEN [dic |-> dic, ret |-> nullptr]
  ELSE LET mmapKey == mmapedKVKey(mmapID, relativePath)
           kv == NewMMKV(ptr, mmapID, mode, aesKey, relativePath, mmapKey)
       IN [dic |-> [k \in DOMAIN dic \cup {mmapKey} |->
                      IF k = mmapKey THEN kv ELSE dic[k]],
           ret |-> kv.ptr]

\* MMKV *MMKV::mmkvWithID(mmapID, mode, aesKey, relativePath): [dic, ret];
\* ptr is the address operator new returns if the instance is constructed
mmkvWithID(dic, mmapID, mode, aesKey, relativePath, ptr) ==
  IF Len(mmapID) = 0 THEN [dic |-> dic, ret |-> nullptr]
  ELSE LET mmapKey == mmapedKVKey(mmapID, relativePath)
           kv == NewMMKV(ptr, mmapID, mode, aesKey, relativePath, mmapKey)
       IN IF mmapKey \in DOMAIN dic
          THEN [dic |-> dic, ret |-> dic[mmapKey].ptr]
          ELSE [dic |-> [k \in DOMAIN dic \cup {mmapKey} |->
                           IF k = mmapKey THEN kv ELSE dic[k]],
                ret |-> kv.ptr]

\* void MMKV::close() on the instance kv: it leaves the registry and is
\* deleted
closeKv(dic, kv) ==
  [k \in DOMAIN dic \ {kv.m_mmapKey} |-> dic[k]]

\* The instances alive in process p, and the addresses free for new
Instances(p) == {g_instanceDic[p][k] : k \in DOMAIN g_instanceDic[p]}

FreePointers(p) == Pointers \ {kv.ptr : kv \in Instances(p)}

MmkvWithID(p, mmapID, mode, aesKey, relativePath, ptr) ==
  /\ ptr \in FreePointers(p)
  /\ g_instanceDic' =
       [g_instanceDic EXCEPT ![p] =
          mmkvWithID(@, mmapID, mode, aesKey, relativePath, ptr).dic]
  /\ UNCHANGED <<pc, holds, g_instanceLock, m_lock, m_fileLock>>
  /\ UNCHANGED engineVars

CloseKv(p, kv) ==
  /\ kv \in Instances(p)
  /\ g_instanceDic' = [g_instanceDic EXCEPT ![p] = closeKv(@, kv)]
  /\ UNCHANGED <<pc, holds, g_instanceLock, m_lock, m_fileLock>>
  /\ UNCHANGED engineVars

\* initialize(): g_instanceDic = new unordered_map<string, MMKV *>
InitReg ==
  /\ dataFile = [size |-> 0, actualSize |-> 0, bytes |-> <<>>]
  /\ appKey = <<>>
  /\ metaFile = ZeroMeta
  /\ inst = [p \in Procs |-> NoInst]
  /\ g_errorHandler = "null"
  /\ model = [k \in Keys |-> Absent]
  /\ pc = [t \in Threads |-> Idle]
  /\ holds = [t \in Threads |-> <<>>]
  /\ g_instanceLock = [p \in Procs |-> FreeLock]
  /\ m_lock = [p \in Procs |-> FreeLock]
  /\ m_fileLock = [p \in Procs |-> NewFileLock]
  /\ g_instanceDic = [p \in Procs |-> EmptyDic]

NextReg ==
  \E p \in {Main} :
    \/ \E mmapID \in MmapIDs, mode \in Modes, aesKey \in {<<>>, CryptKeyA},
          relativePath \in RelativePaths, ptr \in Pointers :
         MmkvWithID(p, mmapID, mode, aesKey, relativePath, ptr)
    \/ \E kv \in Instances(p) : CloseKv(p, kv)

SpecReg == InitReg /\ [][NextReg]_vars

\* The relativePath arguments that name the directory dir
PathsTo(dir) == {path \in RelativePaths : DirOf(path) = dir}

CallKeys == {<<>>, CryptKeyA}

\* C15: registry identity.  Between an open and the matching close every
\* mmkvWithID with the same mmapID and relative path returns the same
\* instance, whatever mode and aesKey it passes, and leaves the instance
\* as it was; the registry holds one instance per mmapKey; the same mmapID
\* under different relative paths gives distinct instances; an empty mmapID
\* gives null and leaves the registry alone; after close() the key is
\* absent and the next open constructs a new instance from its own
\* arguments.
C15_RegistryIdentity ==
  LET dic == g_instanceDic[Main] IN
  /\ \A k \in DOMAIN dic : dic[k].m_mmapKey = k
  /\ \A k1 \in DOMAIN dic, k2 \in DOMAIN dic :
        dic[k1].ptr = dic[k2].ptr => k1 = k2
  /\ \A kv \in Instances(Main) :
        /\ \A mode \in Modes, aesKey \in CallKeys,
               path \in PathsTo(kv.m_dir), ptr \in FreePointers(Main) :
             mmkvWithID(dic, kv.m_mmapID, mode, aesKey, path, ptr)
               = [dic |-> dic, ret |-> kv.ptr]
        /\ kv.m_mmapKey \notin DOMAIN closeKv(dic, kv)
        /\ \A mode \in Modes, aesKey \in CallKeys,
               path \in PathsTo(kv.m_dir), ptr \in Pointers :
             LET r == mmkvWithID(closeKv(dic, kv), kv.m_mmapID, mode,
                                 aesKey, path, ptr)
             IN /\ r.ret = ptr
                /\ r.dic[kv.m_mmapKey]
                     = NewMMKV(ptr, kv.m_mmapID, mode, aesKey, path,
                               kv.m_mmapKey)
  /\ \A mmapID \in MmapIDs \ {<<>>}, mode \in Modes, aesKey \in CallKeys,
         path1 \in RelativePaths, path2 \in RelativePaths,
         ptr1 \in FreePointers(Main), ptr2 \in FreePointers(Main) :
        LET r1 == mmkvWithID(dic, mmapID, mode, aesKey, path1, ptr1)
            r2 == mmkvWithID(r1.dic, mmapID, mode, aesKey, path2, ptr2)
        IN (DirOf(path1) # DirOf(path2)
              /\ (ptr1 # ptr2 \/ r1.dic = dic)) => r1.ret # r2.ret
  /\ \A mode \in Modes, aesKey \in CallKeys, path \in RelativePaths,
         ptr \in Pointers :
        mmkvWithID(dic, <<>>, mode, aesKey, path, ptr)
          = [dic |-> dic, ret |-> nullptr]

\* The plain id is open under the root directory with a crypt key and in
\* single-process mode, and under the other directory as well; a call for
\* the first with no key and MMKV_MULTI_PROCESS returns it unchanged.
C15_Witness ==
  LET dic == g_instanceDic[Main] IN
  /\ DOMAIN dic = {<<1>>, mmapedKVKey(<<1>>, OtherDir)}
  /\ dic[<<1>>].m_crypter = NewAESCrypt(CryptKeyA)
  /\ ~dic[<<1>>].m_isInterProcess
  /\ \E ptr \in Pointers :
        mmkvWithID(dic, <<1>>, MMKV_MULTI_PROCESS, <<>>, NoPath, ptr)
          = [dic |-> dic, ret |-> dic[<<1>>].ptr]

\* ------------------------------------------------------------------------
\* C16: dropping the memory cache
\* ------------------------------------------------------------------------

\* size_t MMKV::actualSize(): [W, ret]
actualSize(W) ==
  LET L == checkLoadData(W) IN [W |-> L, ret |-> L.s.actualSize]

\* What the read operations return on the instance of world W:
\* containsKey, getInt32 and getString of every key, count, allKeys and
\* actualSize, and whether a read brought the process down.
ReadsOf(W) ==
  [contains |-> [k \in Keys |-> containsKey(W, k).ret],
   int |-> [k \in Keys |-> getInt32(W, k, DefaultValue).ret],
   str |-> [k \in Keys |-> [ret |-> getString(W, k).ret,
                            result |-> getString(W, k).result]],
   count |-> count(W).ret,
   allKeys |-> allKeys(W).ret,
   actualSize |-> actualSize(W).ret,
   crashed |-> count(W).W.s.crashed]

\* clearMemoryCache on world W: the files stay as they were, a second
\* clearMemoryCache changes nothing, and every read reloads and returns
\* what it returned on W.
CacheDropLossless(W, C) ==
  /\ C.d = W.d
  /\ C.m = W.m
  /\ C.s.needLoad
  /\ clearMemoryCache(C) = C
  /\ ~count(C).W.s.needLoad
  /\ ReadsOf(C) = ReadsOf(W)

\* C16: cache drop is lossless.  In every reachable state of a loaded
\* instance, clearMemoryCache() followed by any read (containsKey, count,
\* allKeys, get, actualSize) reloads and returns what the same read
\* returned before; clearMemoryCache leaves the data file and the meta file
\* as they were, and a second clearMemoryCache in a row is a no-op.
C16_CacheDropLossless ==
  \A p \in Procs :
    Loaded(p) => CacheDropLossless(WorldOf(p), clearMemoryCache(WorldOf(p)))

\* ------------------------------------------------------------------------
\* C17: what a load does with a damaged file
\* ------------------------------------------------------------------------

\* The instance of the main process holds no index: it is closed, or its
\* cache is dropped
Unloaded(p) == ~inst[p].crashed /\ (~inst[p].open \/ inst[p].needLoad)

\* The next load of the main process: the constructor's, or the
\* checkLoadData of the next operation
LoadOf(p) ==
  IF inst[p].open THEN checkLoadData(WorldOf(p))
  ELSE Construct(dataFile, metaFile, appKey)

\* The header is within the file and the payload does not have the CRC of
\* the meta file
CrcBroken ==
  /\ dataFile.size > 0 /\ ~HeaderBeyondFile
  /\ CRC32(0, Payload(dataFile, dataFile.actualSize)) # metaFile.crcDigest

\* The data file before it was damaged
IntactFile ==
  IF HeaderBeyondFile
  THEN [dataFile EXCEPT !.actualSize = metaFile.actualSize,
                        !.bytes = Payload(dataFile, metaFile.actualSize)]
  ELSE [dataFile EXCEPT !.bytes[1] = FlipBit(@)]

\* The keys that were written to the log that was damaged
KeysWritten ==
  LET recs == RecordsOf(Construct(IntactFile, metaFile, appKey))
  IN {recs[i].key : i \in {j \in DOMAIN recs : recs[j].len > 0}}

\* What the handler registered answers to errorType; OnErrorDiscard when
\* none is registered
Expected(errorType) ==
  IF g_errorHandler = "null" THEN "OnErrorDiscard"
  ELSE CallHandler(g_errorHandler, errorType)

\* The load ended by discarding: empty index, actualSize 0, and a meta file
\* for the empty payload
Discarded(W) ==
  /\ ~W.s.crashed /\ ~W.s.needLoad
  /\ IndexKeys(W) = {}
  /\ W.s.actualSize = 0 /\ W.d.actualSize = 0 /\ W.m.actualSize = 0
  /\ W.m.crcDigest = CRC32(0, <<>>)
  /\ ~W.s.hasFullWriteback
  /\ count(W).ret = 0

\* The load ended by keeping what parses
Recovered(W, written) ==
  /\ ~W.s.crashed /\ ~W.s.needLoad
  /\ W.s.hasFullWriteback
  /\ CrcOk(W)
  /\ count(W).ret <= Cardinality(written)

\* C17: load-error policy.  A load that finds a CRC mismatch, or a header
\* actualSize beyond the file, asks the registered handler with the error
\* type MMKVCRCCheckFail resp. MMKVFileLength and follows its answer, and
\* discards when no handler is registered.  Discarding ends with an empty
\* index, actualSize 0 and a meta file for the empty payload (count() = 0);
\* otherwise the load completes and count() is at most the number of keys
\* written.
C17_LoadErrorPolicy ==
  Unloaded(Main) =>
    /\ CrcBroken =>
         IF Expected("MMKVCRCCheckFail") = "OnErrorDiscard"
         THEN Discarded(LoadOf(Main))
         ELSE Recovered(LoadOf(Main), KeysWritten)
    /\ HeaderBeyondFile =>
         IF Expected("MMKVFileLength") = "OnErrorDiscard"
         THEN Discarded(LoadOf(Main))
         ELSE Recovered(LoadOf(Main), KeysWritten)

\* ------------------------------------------------------------------------
\* C18: the sequence number of the meta file
\* ------------------------------------------------------------------------

\* MemoryFile::isFileValid(): the mapping is there and the file is at least
\* one page long
isFileValid(W) == W.s.fileSize >= PageSize

\* MemoryFile::msync(flag): the pages of the mapping go to the disk; the
\* mapped bytes stay as they are
msync(W, file) == W

\* void MMKV::sync(SyncFlag flag)
sync(W) ==
  IF W.s.needLoad \/ ~isFileValid(W) THEN W
  ELSE msync(msync(W, "data"), "meta")

\* The record does not fit behind the payload and the payload has changed
\* since the last full write-back: the append compacts first
WritesBack(L, rec) ==
  /\ Fixed32Size + L.s.actualSize + Len(rec) > L.s.fileSize
  /\ ~L.s.hasFullWriteback

\* 1 when the condition holds
Bump(cond) == IF cond THEN 1 ELSE 0

\* The operation that left world R ran to its end, and its sequence is n
SeqIs(R, n) == ~R.s.crashed => R.m.sequence = n

\* What the operations on world W do to the sequence, L being W after the
\* checkLoadData they start with
SequenceProtocol(W, L) ==
  /\ L.m.sequence
       = W.m.sequence
           + Bump(W.s.needLoad /\ (CrcBroken \/ HeaderBeyondFile))
  /\ \A k \in Keys :
       /\ SeqIs(getInt32(W, k, DefaultValue).W, L.m.sequence)
       /\ SeqIs(getString(W, k).W, L.m.sequence)
       /\ SeqIs(containsKey(W, k).W, L.m.sequence)
  /\ SeqIs(count(W).W, L.m.sequence)
  /\ SeqIs(allKeys(W).W, L.m.sequence)
  /\ SeqIs(actualSize(W).W, L.m.sequence)
  /\ SeqIs(clearMemoryCache(W), W.m.sequence)
  /\ SeqIs(sync(W), W.m.sequence)
  /\ \A k \in Keys, iv \in NewIVs(Main) :
       /\ \A v \in Values :
            SeqIs(set_int32(W, v, k, iv).W,
                  L.m.sequence
                    + Bump(WritesBack(L, EncodeRecord(k, writeInt32(v)))))
       /\ SeqIs(removeValueForKey(W, k, iv),
                L.m.sequence + Bump(WritesBack(L, EncodeRecord(k, <<>>))))
  /\ \A iv \in NewIVs(Main) :
       /\ SeqIs(fullWritebackLoaded(L, iv),
                L.m.sequence + Bump(~L.s.hasFullWriteback))
       /\ \A ks \in KeyPairs :
            SeqIs(removeValuesForKeys(W, ks, iv),
                  L.m.sequence + Bump(IndexKeys(L) \cap Range(ks) # {}))

\* C18: sequence protocol.  meta.sequence never decreases; every full
\* write-back and every recovery raises it by exactly one
\* (recaculateCRCDigestWithIV writes the meta file with IncreaseSequence),
\* and a plain append (updateCRCDigest, KeepSequence), a read, sync and
\* clearMemoryCache leave it as it is.
C18_SequenceProtocol ==
  /\ [](Running(Main) =>
          SequenceProtocol(WorldOf(Main), checkLoadData(WorldOf(Main))))
  /\ [][metaFile'.sequence >= metaFile.sequence]_vars

\* A loaded instance whose payload has changed since the last full
\* write-back, with the sequence already raised: one set fits behind the
\* payload and keeps the sequence, another does not fit, compacts, and
\* raises it by one.
C18_Witness ==
  /\ Loaded(Main) /\ ~inst[Main].hasFullWriteback
  /\ metaFile.sequence > 0
  /\ \E k \in Keys, v \in Values, iv \in NewIVs(Main) :
       /\ set_int32(WorldOf(Main), v, k, iv).ret
       /\ set_int32(WorldOf(Main), v, k, iv).W.m.sequence = metaFile.sequence
  /\ \E k \in Keys, v \in Values, iv \in NewIVs(Main) :
       /\ set_int32(WorldOf(Main), v, k, iv).ret
       /\ set_int32(WorldOf(Main), v, k, iv).W.m.sequence
            = metaFile.sequence + 1

\* ------------------------------------------------------------------------
\* C19: the payload a full write-back leaves
\* ------------------------------------------------------------------------

\* The bytes the records recs take in the log
RECURSIVE BytesOf(_)
BytesOf(recs) ==
  IF recs = <<>> THEN 0
  ELSE pbRawVarint32Size(Len(Head(recs).key)) + Len(Head(recs).key)
         + pbRawVarint32Size(Head(recs).len) + Head(recs).len
         + BytesOf(Tail(recs))

\* World A is a compacted image of the index with the keys live: its
\* payload is records from end to end, one for each key of the index and
\* none without a value, every holder lies within the payload, and
\* m_hasFullWriteback is set.
CompactOf(A, live) ==
  LET recs == RecordsOf(A) IN
  /\ BytesOf(recs) = A.d.actualSize
  /\ A.s.actualSize = A.d.actualSize
  /\ {recs[i].key : i \in DOMAIN recs} = IndexKeys(A)
  /\ Len(recs) = Cardinality(IndexKeys(A))
  /\ \A i \in DOMAIN recs : recs[i].len > 0
  /\ IndexKeys(A) = live
  /\ Cardinality(CurrentDic(A.s)) = Cardinality(live)
  /\ A.s.hasFullWriteback
  /\ \A h \in CurrentDic(A.s) :
       h.off >= 1 /\ h.len >= 1 /\ h.off + h.len - 1 <= A.s.actualSize

\* C19: compaction postcondition.  Right after a fullWriteback that was not
\* a no-op (called on its own or by a batch remove), the payload holds
\* exactly one record for each key of the index and no tombstone, the index
\* holds exactly the keys that were live before the call, m_hasFullWriteback
\* is true, and the offset and length of every index entry lie within
\* payload[0..actualSize].
C19_CompactionPostcondition ==
  Running(Main) =>
    LET L == checkLoadData(WorldOf(Main)) IN
    \A iv \in NewIVs(Main) :
      /\ LET A == fullWritebackLoaded(L, iv)
         IN (~L.s.hasFullWriteback /\ ~A.s.crashed) =>
              CompactOf(A, IndexKeys(L))
      /\ \A ks \in KeyPairs :
           LET A == removeValuesForKeys(WorldOf(Main), ks, iv)
           IN (IndexKeys(L) \cap Range(ks) # {} /\ ~A.s.crashed) =>
                CompactOf(A, IndexKeys(L) \ Range(ks))

\* Two keys are live, the log holds a superseded record and a tombstone or
\* more than one record of a key, and a full write-back is due.
C19_Witness ==
  /\ Loaded(Main) /\ ~inst[Main].hasFullWriteback
  /\ Cardinality(IndexKeys(WorldOf(Main))) = MaxKey
  /\ Len(RecordsOf(WorldOf(Main))) > MaxKey
  /\ \E iv \in NewIVs(Main) :
       fullWritebackLoaded(WorldOf(Main), iv).d.actualSize
         < dataFile.actualSize

\* ------------------------------------------------------------------------
\* sync, statement by statement: the threads of one process open the
\* store, read it, drop its cache, sync it, close it and exit
\* ------------------------------------------------------------------------

\* The statement of a thread whose pc is c
StmtOf(c) == IF c = Idle THEN Body("idle") ELSE Program(c.op)[c.i]

\* The instance a constructor leaves when the data file was opened, sized
\* to a page, and could not be mapped: nothing is loaded, and
\* m_needLoadFromFile is false
Unmapped ==
  World([dataFile EXCEPT !.size = IF @ < PageSize THEN PageSize ELSE @],
        metaFile,
        [NoInst EXCEPT !.open = TRUE, !.hasDic = TRUE, !.needLoad = FALSE])

\* Thread t finishes its statement and leaves the world W
EngineStep(t, W) ==
  /\ dataFile' = W.d
  /\ metaFile' = W.m
  /\ inst' = [inst EXCEPT ![ProcOf(t)] = W.s]
  /\ UNCHANGED <<g_errorHandler, appKey, model>>
  /\ Next1(t)
  /\ UNCHANGED <<holds, g_instanceLock, m_lock, m_fileLock, g_instanceDic>>

\* The constructor's loadFromFile, with a mapping that succeeds or fails
LoadBody(t) ==
  /\ At(t) = Body("load")
  /\ \E W \in {Construct(dataFile, metaFile, appKey), Unmapped} :
       EngineStep(t, W)

\* The checkLoadData() of a read
ReadBody(t) ==
  /\ At(t) = Body("read")
  /\ EngineStep(t, checkLoadData(WorldOf(ProcOf(t))))

\* clearMemoryCache() under m_lock
CacheBody(t) ==
  /\ At(t) = Body("cache")
  /\ EngineStep(t, clearMemoryCache(WorldOf(ProcOf(t))))

\* sync: the test of m_needLoadFromFile and isFileValid()
TestLoaded(t) ==
  /\ At(t).do = "test"
  /\ IF inst[ProcOf(t)].needLoad \/ ~isFileValid(WorldOf(ProcOf(t)))
     THEN pc' = [pc EXCEPT ![t].i = At(t).to]
     ELSE Next1(t)
  /\ UNCHANGED <<holds, g_instanceLock, m_lock, m_fileLock, g_instanceDic>>
  /\ UNCHANGED engineVars

\* m_file->msync(flag); m_metaFile->msync(flag)
Msync(t) ==
  /\ At(t).do = "body" /\ At(t).on \in {"msyncData", "msyncMeta"}
  /\ EngineStep(t, msync(WorldOf(ProcOf(t)), At(t).on))

SyncOps ==
  {"mmkvWithID", "getInt32", "clearMemoryCache", "sync", "close", "onExit"}

NextSync ==
  \E t \in ThreadsOf(Main) :
    \/ \E op \in SyncOps : Call(t, op)
    \/ LockInstanceLock(t)
    \/ LockMLock(t)
    \/ UnlockThreadLock(t)
    \/ LockShared(t)
    \/ LockExclusive(t)
    \/ UnlockFileLock(t)
    \/ Jump(t)
    \/ SetRegistry(t)
    \/ Delete(t)
    \/ LoadBody(t)
    \/ ReadBody(t)
    \/ CacheBody(t)
    \/ TestLoaded(t)
    \/ Msync(t)

SpecSync == InitLock /\ [][NextSync]_vars

\* The instance of process p is loaded over a valid file
SyncNeeded(p) == ~inst[p].needLoad /\ isFileValid(WorldOf(p))

\* A thread inside sync is at a flush only with m_lock taken first and the
\* exclusive lock second, on a loaded instance with a valid file; it asks
\* for the exclusive lock holding m_lock alone
SyncLocks ==
  \A t \in Threads :
    pc[t].op = "sync" =>
      /\ At(t).do = "body" =>
           holds[t] = <<"m", "exclusive">> /\ SyncNeeded(ProcOf(t))
      /\ At(t) = Lock("exclusive") => holds[t] = <<"m">>
      /\ At(t).do = "test" => holds[t] = <<"m">>

\* The steps of a thread inside sync: the test goes on to the exclusive
\* lock when the instance is loaded and the file valid, and to the release
\* of m_lock otherwise, from where the call returns; the data file is
\* flushed right after the exclusive lock is taken, the meta file right
\* after the data file, and the exclusive lock is released after that
SyncOrder ==
  \A t \in Threads :
    (pc[t].op = "sync" /\ pc'[t] # pc[t]) =>
      /\ StmtOf(pc[t]).do = "test" =>
           IF SyncNeeded(ProcOf(t))
           THEN StmtOf(pc'[t]) = Lock("exclusive")
           ELSE StmtOf(pc'[t]) = Unlock("m") /\ holds'[t] = holds[t]
      /\ StmtOf(pc[t]) = Unlock("m") => pc'[t] = Idle
      /\ StmtOf(pc'[t]) = Lock("exclusive") => StmtOf(pc[t]).do = "test"
      /\ StmtOf(pc'[t]) = Body("msyncData") =>
           StmtOf(pc[t]) = Lock("exclusive")
      /\ StmtOf(pc'[t]) = Body("msyncMeta") =>
           StmtOf(pc[t]) = Body("msyncData")
      /\ StmtOf(pc[t]) = Body("msyncMeta") =>
           StmtOf(pc'[t]) = Unlock("exclusive")
      /\ StmtOf(pc'[t]) = Unlock("exclusive") =>
           StmtOf(pc[t]) = Body("msyncMeta")

\* C20: sync ordering.  sync on a loaded instance with a valid file takes
\* m_lock, then the exclusive inter-process lock, and flushes the data file
\* before the meta file, never the meta file first; when the instance
\* needs load (after clearMemoryCache) or the file is invalid, sync returns
\* without taking the exclusive lock and without flushing either file.
C20_SyncOrdering == []SyncLocks /\ [][SyncOrder]_vars

\* A thread inside sync has flushed the data file and is about to flush
\* the meta file, while the other thread of the process waits for m_lock
\* in clearMemoryCache.
C20_Witness ==
  \E t \in ThreadsOf(Main), u \in ThreadsOf(Main) :
    /\ pc[t].op = "sync" /\ At(t) = Body("msyncMeta")
    /\ pc[u].op = "clearMemoryCache" /\ At(u) = Lock("m")

\* ------------------------------------------------------------------------
\* The index of the current crypt mode
\* ------------------------------------------------------------------------

\* C21: index/cipher consistency.  In every reachable state of a running
\* instance the index the read paths dereference exists for the current
\* crypt mode: m_crypter != null implies m_dicCrypt != null, and
\* m_crypter == null implies m_dic != null, also after checkReSetCryptKey
\* has gone from plain to crypt or from crypt to plain.
C21_IndexCipherConsistency ==
  \A p \in Procs :
    Running(p) =>
      /\ inst[p].crypter.on => inst[p].hasDicCrypt
      /\ ~inst[p].crypter.on => inst[p].hasDic

\* ------------------------------------------------------------------------
\* C22: what m_hasFullWriteback says of the payload
\* ------------------------------------------------------------------------

\* Where m_hasFullWriteback is set in W, the payload is the compacted image
\* of the index
FlagSound(W) == W.s.hasFullWriteback => CompactOf(W, IndexKeys(W))

\* The instance of process p is loaded and no other process has written
\* the meta file since p read or wrote it
Current(p) == Loaded(p) /\ inst[p].meta = metaFile

\* What the claim asks apart from the constructor: the flag is sound when
\* the instance is loaded and current; it is false after clearMemoryCache; a batch remove that erases a key writes back
\* whatever the flag was; and no set and no single-key remove that appended
\* leaves it set
FlagKept ==
  LET W == WorldOf(Main) IN
  /\ \A p \in Procs : Current(p) => FlagSound(WorldOf(p))
  /\ Running(Main) =>
       /\ ~clearMemoryCache(W).s.hasFullWriteback
       /\ \A iv \in NewIVs(Main) :
            /\ \A ks \in KeyPairs :
                 LET L == checkLoadData(W)
                     A == removeValuesForKeys(W, ks, iv)
                 IN (IndexKeys(L) \cap Range(ks) # {} /\ ~A.s.crashed) =>
                      /\ A.m.sequence = L.m.sequence + 1
                      /\ CompactOf(A, IndexKeys(L) \ Range(ks))
            /\ \A k \in Keys :
                 /\ \A v \in Values :
                      LET r == set_int32(W, v, k, iv)
                      IN (r.ret /\ ~r.W.s.crashed) =>
                           ~r.W.s.hasFullWriteback
                 /\ LET R == removeValueForKey(W, k, iv)
                    IN ~R.s.crashed => ~R.s.hasFullWriteback

\* The load of the constructor would find the header beyond the file or
\* the CRC of the payload other than the one of the meta file
DamagedFile == HeaderBeyondFile \/ CrcBroken

MaxSize == 6

\* The uint32 2^31, held as the int32 of the same 32 bits
HighBit == (-(2 ^ 30)) - (2 ^ 30)

\* CodedOutputData::writeRawVarint32(int32_t value): seven bits at a time
\* with a logical right shift, so a value with bit 31 takes five bytes
writeRawVarint32(value) ==
  IF value >= 0 THEN EncodeVarint(value)
  ELSE <<(value % 128) + 128>>
         \o EncodeVarint((value - (value % 128)) \div 128 + 2 ^ 25)

\* output.writeUInt32(value)
writeUInt32(value) == writeRawVarint32(value)

\* bool MMKV::set(uint32_t value, MMKVKey_t key): [W, ret]
set_uint32(W, value, key, newIV) ==
  IF isKeyEmpty(key) THEN [W |-> W, ret |-> FALSE]
  ELSE setDataForKey(W, writeUInt32(value), key, newIV)

\* The uint32 values and the C strings stored
UInt32Values == {1, HighBit}
BufStrings == {<<>>, <<97, 98>>}

\* The caller's buffer of MaxSize bytes before the call
CallerBuffer == [i \in 1..MaxSize |-> 255]

SetUInt32(p, key, value, newIV) ==
  /\ Running(p)
  /\ CommitPut(p, set_uint32(WorldOf(p), value, key, newIV), key,
               IntValue(value))

WriteValueToBuffer(p, key, size) ==
  /\ Running(p)
  /\ Commit(p, writeValueToBuffer(WorldOf(p), key, CallerBuffer, size).W)
  /\ UNCHANGED model

NextBuf ==
  \E p \in {Main} :
    \/ Open(p)
    \/ \E k \in Keys, v \in UInt32Values, iv \in NewIVs(p) :
         SetUInt32(p, k, v, iv)
    \/ \E k \in Keys, str \in BufStrings, iv \in NewIVs(p) :
         SetCStr(p, FALSE, str, k, iv)
    \/ \E k \in Keys, iv \in NewIVs(p) : RemoveValueForKey(p, k, iv)
    \/ ClearMemoryCache(p)
    \/ \E k \in AllKeys, size \in -1..MaxSize : WriteValueToBuffer(p, k, size)

SpecBuf == Init /\ [][NextBuf]_vars

\* data is varint(len) || len bytes, and the bytes behind the prefix
IsRun(data) ==
  \E len \in 0..Len(data) :
    data = EncodeVarint(len) \o SubSeq(data, Len(data) - len + 1, Len(data))

InnerRun(data) ==
  LET len == CHOOSE n \in 0..Len(data) :
               data = EncodeVarint(n)
                        \o SubSeq(data, Len(data) - n + 1, Len(data))
  IN SubSeq(data, Len(data) - len + 1, Len(data))

\* Reading a varint at the start of data throws: the buffer ends, or ten
\* bytes pass, before a byte without the continuation bit
DecodeFails(data) == \A i \in 1..Min(Len(data), 10) : data[i] >= 128

\* What writeValueToBuffer(key, ptr, size) gives for the stored bytes data
\* (empty when the key is absent), when refused tells whether the call is
\* to return -1 for them whatever size is: -1 and ptr as it was when
\* refused or when the bytes to copy are more than size, and otherwise the
\* number of bytes copied, with the inner run or the whole of data at the
\* start of ptr
CopyOf(data, ptr, size, refused) ==
  LET bytes == IF IsRun(data) THEN InnerRun(data) ELSE data IN
  IF refused \/ Len(bytes) > size THEN [ret |-> -1, ptr |-> ptr]
  ELSE [ret |-> Len(bytes),
        ptr |-> bytes \o SubSeq(ptr, Len(bytes) + 1, Len(ptr))]

\* writeValueToBuffer on the instance of the main process does as CopyOf
\* says for every key, size >= 0 and buffer; it changes no byte of ptr
\* beyond the first size; and it leaves the instance, the index with it,
\* and the files as its checkLoadData() left them
BufferBound(negativeRefused) ==
  Running(Main) =>
    LET W == WorldOf(Main) IN
    \A k \in Keys, size \in 0..MaxSize :
      LET data == getDataForKey(W, k).data
          r == writeValueToBuffer(W, k, CallerBuffer, size)
          c == CopyOf(data, CallerBuffer, size,
                      \/ data = <<>>
                      \/ DecodeFails(data)
                      \/ negativeRefused /\ readRawVarint32(data).val < 0)
      IN ~r.W.s.crashed =>
           /\ r.ret = c.ret /\ r.ptr = c.ptr
           /\ r.ret <= size
           /\ \A i \in (size + 1)..MaxSize : r.ptr[i] = CallerBuffer[i]
           /\ r.W = checkLoadData(W)
           /\ CurrentDic(r.W.s) = CurrentDic(checkLoadData(W).s)

\* C23: writeValueToBuffer bound.  For every key, stored value and
\* size >= 0, writeValueToBuffer(key, ptr, size) copies at most size bytes
\* into ptr; it returns the number of bytes copied (the inner length when
\* the stored bytes are a length-prefixed run, otherwise the whole stored
\* length) when that number is <= size, and returns -1 without writing to
\* ptr when the value is larger than size, the key is absent, or decoding
\* fails; the index is never modified.
C23_WriteValueToBufferBound == BufferBound(FALSE)

\* The same with -1 also for stored bytes whose first varint reads as a
\* negative int32
BufferBoundButNegative == BufferBound(TRUE)

\* A key holds the uint32 2^31 and a buffer as long as its five stored
\* bytes is offered
NegativeLengthStored ==
  /\ Loaded(Main)
  /\ \E k \in Keys :
       /\ getDataForKey(WorldOf(Main), k).data = writeUInt32(HighBit)
       /\ writeValueToBuffer(WorldOf(Main), k, CallerBuffer, 5).ret = -1

\* ------------------------------------------------------------------------
\* C24: onExit
\* ------------------------------------------------------------------------

\* Statement stmt stands before the statement thread t is at
Passed(t, stmt) ==
  \E j \in 1..(pc[t].i - 1) : Program(pc[t].op)[j] = stmt

\* A thread inside onExit holds g_instanceLock from its first statement on;
\* it drops the cache of a loaded instance with a valid file only behind
\* the flush of the data file and then of the meta file; it destroys the
\* instance only with the cache dropped and the instance still registered;
\* it deletes the registry with no instance left in it, and returns with
\* g_instanceDic null.  With g_instanceDic null no thread is in an
\* operation of an instance or behind the find() of mmkvWithID.
ExitState ==
  /\ \A t \in Threads :
       pc[t].op = "onExit" =>
         /\ pc[t].i >= 2 =>
              /\ holds[t] # <<>> /\ holds[t][1] = "g"
              /\ g_instanceLock[ProcOf(t)].owner = t
         /\ (At(t) = Body("cache") /\ SyncNeeded(ProcOf(t))) =>
              \E j \in 1..pc[t].i, k \in 1..pc[t].i :
                /\ j < k /\ k < pc[t].i
                /\ onExitProgram[j] = Body("msyncData")
                /\ onExitProgram[k] = Body("msyncMeta")
         /\ At(t) = Body("delete") =>
              /\ inst[ProcOf(t)].needLoad
              /\ g_instanceDic[ProcOf(t)] = "kv"
              /\ Passed(t, Body("cache"))
         /\ At(t) = Body("exit") => g_instanceDic[ProcOf(t)] = "empty"
         /\ At(t) = Unlock("g") => g_instanceDic[ProcOf(t)] = "null"
  /\ \A p \in Procs :
       g_instanceDic[p] = "null" =>
         \A u \in ThreadsOf(p) :
           /\ pc[u].op \in {"idle", "mmkvWithID", "onExit"}
           /\ pc[u].op = "mmkvWithID" => At(u) \in {Lock("g"), IfFound(7)}

\* The steps of a thread inside onExit: statement by statement, but for the
\* loop over an empty registry, which goes to the delete of the registry,
\* and the test of sync, which goes on to the exclusive lock and the two
\* flushes when the instance is loaded and the file valid and to the
\* release of m_lock otherwise; the meta file is flushed right after the
\* data file; only clearMemoryCache changes the instance.  A registry that
\* is deleted stays deleted.
ExitOrder ==
  /\ \A t \in Threads :
       (pc[t].op = "onExit" /\ pc'[t] # pc[t]) =>
         /\ StmtOf(pc[t]).do = "jump" =>
              IF g_instanceDic[ProcOf(t)] = "empty"
              THEN StmtOf(pc'[t]) = Body("exit")
              ELSE StmtOf(pc'[t]) = Lock("m") /\ pc'[t].i = pc[t].i + 1
         /\ StmtOf(pc[t]).do = "test" =>
              IF SyncNeeded(ProcOf(t))
              THEN StmtOf(pc'[t]) = Lock("exclusive")
                     /\ pc'[t].i = pc[t].i + 1
              ELSE StmtOf(pc'[t]) = Unlock("m") /\ holds'[t] = holds[t]
                     /\ Passed(t, Body("msyncMeta"))'
         /\ StmtOf(pc[t]).do \notin {"jump", "test"} =>
              pc'[t] = IF pc[t].i = Len(onExitProgram) THEN Idle
                       ELSE [pc[t] EXCEPT !.i = @ + 1]
         /\ StmtOf(pc'[t]) = Body("msyncMeta") =>
              StmtOf(pc[t]) = Body("msyncData")
         /\ StmtOf(pc[t]) # Body("cache") => inst' = inst
         /\ StmtOf(pc[t]) = Body("cache") =>
              inst'[ProcOf(t)].needLoad /\ ~inst'[ProcOf(t)].hasFullWriteback
  /\ \A p \in Procs :
       g_instanceDic[p] = "null" => g_instanceDic'[p] = "null"

\* C24: exit ordering.  onExit, under g_instanceLock, calls sync() on the
\* registered instance strictly before clearMemoryCache() and only then
\* destroys it, so a loaded instance with a valid file has its data file
\* and then its meta file flushed before its mapping is dropped;
\* afterwards no instance is registered and g_instanceDic is null, so no
\* later mmkvWithID or close finds an instance.
C24_ExitOrdering == []ExitState /\ [][ExitOrder]_vars

\* A thread inside onExit has flushed both files of a loaded instance and
\* is about to drop its cache.
C24_Witness ==
  \E t \in ThreadsOf(Main) :
    /\ pc[t].op = "onExit" /\ At(t) = Body("cache")
    /\ SyncNeeded(Main)
    /\ Passed(t, Body("msyncMeta"))

====
